---- MODULE Spec2Model ----
(***************************************************************************)
(* A model of the semantic-retrieval core of gamechanger-ml:               *)
(*   - SentenceEncoder._index / index_documents   (the index builder),     *)
(*   - SentenceSearcher / SimilarityRanker         (retrieve, re-rank),    *)
(*   - scripts/make_training_data.py               (the training miner).   *)
(*   - src/recommender/recommend.py                (the recommender),      *)
(*   - api/fastapi/routers/controls.py             (reload, train).        *)
(*                                                                         *)
(* Python strings are modelled as sequences of one-symbol strings, so that *)
(* split, upper, strip, join and slicing are computed as Python computes   *)
(* them.  Python dicts are modelled as sequences of <<key, value>> pairs   *)
(* with unique keys, which keeps the insertion order a dict iterates in.   *)
(***************************************************************************)
EXTENDS Integers, Sequences, FiniteSets, TLC

VARIABLES
    \* ---- the index location (files) and the builder's frame --------------
    files,          \* names of the files that exist at the index location
    unreadable,     \* those of them a failed write left cut short, so that their reader raises
    embFile,        \* embeddings.npy : the saved vector matrix
    idsFile,        \* doc_ids.txt    : the saved id list, as text
    dfFile,         \* data.csv       : the saved metadata table, as csv rows
    annFile,        \* what embedder.save persists: config ids + ANN vectors
    bpc,            \* position inside index_documents/_index
    corpus,         \* _index's argument
    overwrite,      \* encoder_args['overwrite']
    ids,            \* _index local
    embeddings,     \* _index local
    df,             \* _index local
    old_ids,        \* _index local
    old_embeddings, \* _index local
    old_df,         \* _index local
    merged,         \* whether line 88's branch was taken by the last call
    dropped,        \* position of the corpus entry the Embedding Provider failed on, or 0
    bresult,        \* how the last index_documents call ended
    \* ---- a loaded SentenceSearcher and the last call made on it ------------
    r_ids,          \* embedder.config["ids"] as loaded by embedder.load
    r_data,         \* self.data: the metadata table read from data.csv
    n_returns,      \* self.n_returns
    sop,            \* the last call: its name and arguments
    sresult,        \* "ok", or the exception the call raised
    sout,           \* what the call returned
    simout,         \* what the Similarity Provider returned inside the call
    \* ---- one call of make_training_data -----------------------------------
    margs,          \* the arguments and the files the call reads
    intel,          \* the relations, after add_gold_standard
    mpc,            \* position inside make_training_data
    bound,          \* the passes whose two result names are bound
    loopPos,        \* <<query, document>> position of the two loops of a pass
    found,          \* found of the pass under way
    not_found,      \* not_found of the pass under way
    passFound,      \* correct_found, incorrect_found, neutral_found
    passNotFound,   \* correct_notfound, incorrect_notfound, neutral_notfound
    lastPair,       \* what the last pair of the pass under way saw and did
    visited,        \* the <<query id, collection id>> pairs the pass under way has handled
    writeLog,       \* the <<uid, example>> writes to found of the pass under way, in order
    splits,         \* the (train, test) of each pass
    notfound,       \* the merged not-found mapping
    train,          \* the merged train mapping
    test,           \* the merged test mapping
    metadata,       \* the metadata dictionary
    written,        \* the files written to save_dir
    mresult,        \* "ok", or the exception that ended the call
    \* ---- the module-level random generator of make_training_data.py -----------
    rng,            \* 32-bit words the generator has given out since random.seed(42),
                    \* or Unseeded in a process that never called random.seed
    splitCalls,     \* the train_test_split calls made since the import, with results
    dictViews,      \* whether the interpreter's random.sample takes a dict view (up to 3.10)
    \* ---- recommend.py: the corpus list, a Recommender and the last get_recs call -
    corpus_list,    \* the module-level corpus_list of line 12
    graph,          \* self.graph: the edges of the user graph
    rcall,          \* the arguments of the last get_recs call
    rout,           \* what the last get_recs call returned, or the exception it raised at line 73
    \* ---- controls.py: the /reloadModels and /trainModel handlers and their threads
    reloads,        \* each /reloadModels request: its model_dict, total, thread position
    reports,        \* the processmanager.update_status calls for the reloading process
    loadedPaths,    \* SENT_INDEX_PATH.value and QEXP_MODEL_NAME.value
    trainCalls      \* each /trainModel request: its model_dict, status code and thread

builderVars == <<files, unreadable, embFile, idsFile, dfFile, annFile, bpc, corpus, overwrite,
                 ids, embeddings, df, old_ids, old_embeddings, old_df, merged,
                 dropped, bresult>>

searchVars == <<r_ids, r_data, n_returns, sop, sresult, sout, simout>>

minerVars == <<margs, intel, mpc, bound, loopPos, found, not_found, passFound, passNotFound,
               lastPair, visited, writeLog, splits, notfound, train, test, metadata, written,
               mresult>>

splitVars == <<rng, splitCalls, dictViews>>

recVars == <<corpus_list, graph, rcall, rout>>

reloadVars == <<reloads, reports, loadedPaths>>

trainVars == <<trainCalls>>

extVars == <<splitVars, recVars, reloadVars, trainVars>>

vars == <<builderVars, searchVars, minerVars, extVars>>

\* the module has been imported by an interpreter and train_test_split has not been
\* called
SplitImported(views) ==
    /\ rng = 0
    /\ splitCalls = <<>>
    /\ dictViews = views

SplitIdle == SplitImported(TRUE)

\* no Recommender has been constructed
RecIdle ==
    /\ corpus_list = <<>>
    /\ graph = {}
    /\ rcall = [called |-> FALSE]
    /\ rout = [raised |-> ""]

MaxReloads == 2

\* a /reloadModels request that has not been posted
NoReload == [pc |-> "none", model_dict |-> <<>>, total |-> 0, progress |-> 0]

\* the service has started and no /reloadModels request has been posted
ReloadIdle ==
    /\ reloads = [r \in 1..MaxReloads |-> NoReload]
    /\ reports = <<>>
    /\ loadedPaths = [sentence |-> "default", qexp |-> "default"]

\* no /trainModel request has been posted
TrainIdle == trainCalls = <<>>

ExtIdle == SplitIdle /\ RecIdle /\ ReloadIdle /\ TrainIdle

----------------------------------------------------------------------------
(* Python string and list primitives                                       *)

Min(a, b) == IF a <= b THEN a ELSE b

\* s[:n] for n >= 0
Take(s, n) == SubSeq(s, 1, Min(n, Len(s)))

\* s[n:] for n >= 0
Drop(s, n) == SubSeq(s, n + 1, Len(s))

\* the concatenation of a sequence of sequences
RECURSIVE Cat(_)
Cat(ss) == IF ss = <<>> THEN <<>> ELSE Head(ss) \o Cat(Tail(ss))

\* str.find(pat): the first position (1-based) at which pat occurs in s, 0 if none
FindSub(s, pat) ==
    LET hits == { i \in 1..(Len(s) - Len(pat) + 1) : SubSeq(s, i, i + Len(pat) - 1) = pat }
    IN  IF hits = {} THEN 0 ELSE CHOOSE i \in hits : \A j \in hits : i <= j

\* s.split(pat)[0]
SplitFirst(s, pat) ==
    LET i == FindSub(s, pat) IN IF i = 0 THEN s ELSE SubSeq(s, 1, i - 1)

\* str.split(sep) for a one-symbol separator: the list of the fields
RECURSIVE SplitOn(_, _)
SplitOn(s, sep) ==
    LET i == FindSub(s, <<sep>>)
    IN  IF i = 0 THEN <<s>> ELSE <<SubSeq(s, 1, i - 1)>> \o SplitOn(Drop(s, i), sep)

\* sep.join(parts)
RECURSIVE JoinWith(_, _)
JoinWith(parts, sep) ==
    IF parts = <<>> THEN <<>>
    ELSE IF Len(parts) = 1 THEN parts[1]
    ELSE parts[1] \o <<sep>> \o JoinWith(Tail(parts), sep)

LowerLetters ==
    <<"a", "b", "c", "d", "e", "f", "g", "h", "i", "j", "k", "l", "m",
      "n", "o", "p", "q", "r", "s", "t", "u", "v", "w", "x", "y", "z">>

UpperLetters ==
    <<"A", "B", "C", "D", "E", "F", "G", "H", "I", "J", "K", "L", "M",
      "N", "O", "P", "Q", "R", "S", "T", "U", "V", "W", "X", "Y", "Z">>

\* str.upper() of one character: a lower-case letter becomes its capital, every other
\* character stays
UpperChar(c) ==
    IF \E i \in 1..Len(LowerLetters) : LowerLetters[i] = c
    THEN UpperLetters[CHOOSE i \in 1..Len(LowerLetters) : LowerLetters[i] = c]
    ELSE c

\* str.upper() of a string of single characters (paragraph and document ids); it is
\* never applied to a text, whose symbols are whole words
Upper(s) == [i \in 1..Len(s) |-> UpperChar(s[i])]

WhiteSpace == {" ", "\t", "\n"}

\* str.lstrip()
RECURSIVE LStrip(_)
LStrip(s) == IF s # <<>> /\ Head(s) \in WhiteSpace THEN LStrip(Tail(s)) ELSE s

\* str.rstrip()
RECURSIVE RStrip(_)
RStrip(s) ==
    IF s # <<>> /\ s[Len(s)] \in WhiteSpace THEN RStrip(SubSeq(s, 1, Len(s) - 1)) ELSE s

\* str.strip()
Strip(s) == LStrip(RStrip(s))

Range(s) == { s[i] : i \in 1..Len(s) }

----------------------------------------------------------------------------
(* The index builder: SentenceEncoder._index and index_documents           *)

MaxCorpusLen == 2
MaxIndexLen == 4

Pdf == <<".", "p", "d", "f">>
ParId(doc, n) == doc \o Pdf \o <<"_", n>>

\* the passages a corpus is drawn from: (para_id, text); the third component of a
\* corpus entry (tags) is None and is never read
CorpusPassages ==
    { [id |-> ParId(<<"D", "1">>, "0"), text |-> <<"the", " ", "cat", " ", "sat">>],
      [id |-> ParId(<<"D", "2">>, "0"), text |-> <<"a", " ", "dog", " ", "ran">>],
      [id |-> ParId(<<"D", "3">>, "0"), text |-> <<"NA">>] }

Corpora == UNION { [1..n -> CorpusPassages] : n \in 1..MaxCorpusLen }

\* The Embedding Provider, text -> vector.  A vector is named by the text it encodes;
\* unit says whether it has been scaled to unit length.
Embed(text) == [of |-> text, unit |-> FALSE]

\* embedder.model.index(corpus): one id and one vector per document, in corpus order
ModelIndexIds(c) == [i \in 1..Len(c) |-> c[i].id]
ModelIndexVectors(c) == [i \in 1..Len(c) |-> Embed(c[i].text)]

\* lines 77-81: the dataframe of the new corpus, columns text, paragraph_id
NewDataframe(c) == [i \in 1..Len(c) |-> [text |-> c[i].text, paragraph_id |-> c[i].id]]

\* line 113: fp.writelines([i + "\n" for i in ids])
WriteIdLines(idlist) == Cat([i \in 1..Len(idlist) |-> idlist[i] \o <<"\n">>])

\* open_txt: the lines of the file, each with its line end
RECURSIVE ReadLines(_)
ReadLines(txt) ==
    LET i == FindSub(txt, <<"\n">>)
    IN  IF txt = <<>> THEN <<>>
        ELSE IF i = 0 THEN <<txt>>
        ELSE <<SubSeq(txt, 1, i)>> \o ReadLines(Drop(txt, i))

\* line 97: old_ids = [doc_id[:-1] for doc_id in open_txt(ids_path)]
LoadOldIds(txt) ==
    LET lines == ReadLines(txt)
    IN  [i \in 1..Len(lines) |-> SubSeq(lines[i], 1, Len(lines[i]) - 1)]

\* pandas' missing value: what read_csv makes of an empty field and of "NA"
NaN == <<"<NaN>">>
NaStrings == { <<>>, <<"NA">>, NaN }

\* df.to_csv(path, index=False): a missing value is written as an empty field
ToCsv(frame) ==
    [i \in 1..Len(frame) |->
        [text |-> IF frame[i].text = NaN THEN <<>> ELSE frame[i].text,
         paragraph_id |-> frame[i].paragraph_id]]

\* pd.read_csv(path): a field that is one of the default NA strings is read as NaN
ReadCsv(rows) ==
    [i \in 1..Len(rows) |->
        [text |-> IF rows[i].text \in NaStrings THEN NaN ELSE rows[i].text,
         paragraph_id |-> IF rows[i].paragraph_id \in NaStrings THEN NaN
                          ELSE rows[i].paragraph_id]]

\* embedder.normalize(embeddings): every row scaled to unit length, in place
Normalize(vectors) == [i \in 1..Len(vectors) |-> [vectors[i] EXCEPT !.unit = TRUE]]

\* a test that extends whenever the vector file exists, whatever overwrite says
ExtendsWheneverPresent(fs, ow) == "emb" \in fs

\* line 88: os.path.isfile(embedding_path) and overwrite is False
ExtendsExisting(fs, ow) == "emb" \in fs /\ ow = FALSE

\* line 94: np.vstack((old_embeddings, embeddings))
MergeEmbeddings(old, new) == old \o new

\* a merge that drops the new ids already present (the intent the comment at line
\* 100 states), applied to the id list alone
MergeIdsDropOverlaps(old, new) == old \o SelectSeq(new, LAMBDA x : x \notin Range(old))

\* line 102: ids = old_ids + ids
MergeIds(old, new) == old \o new

\* a concat with the frames in the other order
MergeDataframesNewFirst(old, new) == new \o old

\* line 107: pd.concat([old_df, df])
MergeDataframes(old, new) == old \o new

BuilderInit ==
    /\ files = {}
    /\ embFile = <<>>
    /\ idsFile = <<>>
    /\ dfFile = <<>>
    /\ annFile = [ids |-> <<>>, vectors |-> <<>>]
    /\ bpc = "idle"
    /\ corpus = <<>>
    /\ overwrite = FALSE
    /\ ids = <<>>
    /\ embeddings = <<>>
    /\ df = <<>>
    /\ old_ids = <<>>
    /\ old_embeddings = <<>>
    /\ old_df = <<>>
    /\ merged = FALSE
    /\ dropped = 0
    /\ unreadable = {}
    /\ bresult = "none"

\* the corpus entries the Embedding Provider answered for: all of them, or all but
\* the one at position f
Answered(c, f) == [i \in 1..(Len(c) - (IF f = 0 THEN 0 ELSE 1)) |->
                    IF f = 0 \/ i < f THEN c[i] ELSE c[i + 1]]

\* lines 65-107 for corpus c: the ids and vectors are those the embedder returned, the
\* dataframe is built from the corpus itself, and when the location holds embeddings
\* and overwrite is False the persisted vectors, ids and rows go in front
IndexLocals(c, ow, f) ==
    /\ ExtendsExisting(files, ow) =>
        /\ Len(embFile) + Len(c) <= MaxIndexLen
        /\ Len(dfFile) + Len(c) <= MaxIndexLen
    /\ corpus' = c
    /\ overwrite' = ow
    /\ dropped' = f
    /\ merged' = ExtendsExisting(files, ow)
    /\ IF ExtendsExisting(files, ow)
       THEN /\ old_embeddings' = embFile
            /\ old_ids' = LoadOldIds(idsFile)
            /\ old_df' = ReadCsv(dfFile)
            /\ embeddings' = MergeEmbeddings(embFile, ModelIndexVectors(Answered(c, f)))
            /\ ids' = MergeIds(LoadOldIds(idsFile), ModelIndexIds(Answered(c, f)))
            /\ df' = MergeDataframes(ReadCsv(dfFile), NewDataframe(c))
       ELSE /\ old_embeddings' = <<>>
            /\ old_ids' = <<>>
            /\ old_df' = <<>>
            /\ embeddings' = ModelIndexVectors(Answered(c, f))
            /\ ids' = ModelIndexIds(Answered(c, f))
            /\ df' = NewDataframe(c)
    /\ bpc' = "save_embeddings"
    /\ bresult' = "running"
    /\ UNCHANGED <<files, unreadable, embFile, idsFile, dfFile, annFile>>

\* index_documents is called and the embedder answers for every corpus entry
IndexBegin ==
    /\ bpc = "idle"
    /\ \E c \in Corpora, ow \in BOOLEAN : IndexLocals(c, ow, 0)

\* index_documents is called and the Embedding Provider fails on one corpus entry:
\* either the exception leaves embedder.model.index (line 66) and the call, or the
\* embedder leaves the entry out of what it returns
ProviderFails ==
    /\ bpc = "idle"
    /\ \E c \in Corpora, ow \in BOOLEAN, f \in 1..MaxCorpusLen :
        /\ f <= Len(c)
        /\ \/ IndexLocals(c, ow, f)
           \/ /\ corpus' = c
              /\ overwrite' = ow
              /\ dropped' = f
              /\ bresult' = "ProviderError"
              /\ UNCHANGED <<files, unreadable, embFile, idsFile, dfFile, annFile, bpc, ids,
                             embeddings,
                             df, old_ids, old_embeddings, old_df, merged>>

\* a save that puts the matrix, the id list and the table in place in one step
SaveAllAtOnce ==
    /\ bpc = "save_embeddings"
    /\ embFile' = embeddings
    /\ idsFile' = WriteIdLines(ids)
    /\ dfFile' = ToCsv(df)
    /\ files' = files \cup {"emb", "ids", "df"}
    /\ unreadable' = unreadable \ {"emb", "ids", "df"}
    /\ bpc' = "build_ann"
    /\ UNCHANGED <<annFile, corpus, overwrite, ids, embeddings, df,
                   old_ids, old_embeddings, old_df, merged, dropped, bresult>>

\* line 111: np.save(embedding_path, embeddings)
SaveEmbeddings ==
    /\ bpc = "save_embeddings"
    /\ embFile' = embeddings
    /\ files' = files \cup {"emb"}
    /\ unreadable' = unreadable \ {"emb"}
    /\ bpc' = "save_ids"
    /\ UNCHANGED <<idsFile, dfFile, annFile, corpus, overwrite, ids, embeddings, df,
                   old_ids, old_embeddings, old_df, merged, dropped, bresult>>

\* lines 112-113: the id list written one id per line
SaveIds ==
    /\ bpc = "save_ids"
    /\ idsFile' = WriteIdLines(ids)
    /\ files' = files \cup {"ids"}
    /\ unreadable' = unreadable \ {"ids"}
    /\ bpc' = "save_dataframe"
    /\ UNCHANGED <<embFile, dfFile, annFile, corpus, overwrite, ids, embeddings, df,
                   old_ids, old_embeddings, old_df, merged, dropped, bresult>>

\* line 116: df.to_csv(dataframe_path, index=False)
SaveDataframe ==
    /\ bpc = "save_dataframe"
    /\ dfFile' = ToCsv(df)
    /\ files' = files \cup {"df"}
    /\ unreadable' = unreadable \ {"df"}
    /\ bpc' = "build_ann"
    /\ UNCHANGED <<embFile, idsFile, annFile, corpus, overwrite, ids, embeddings, df,
                   old_ids, old_embeddings, old_df, merged, dropped, bresult>>

\* lines 118-131 and 163: normalize in place, set config ids, build the ANN index
\* over the normalized matrix, then embedder.save(index_path)
BuildAndSaveIndex ==
    /\ bpc = "build_ann"
    /\ embeddings' = Normalize(embeddings)
    /\ annFile' = [ids |-> ids, vectors |-> Normalize(embeddings)]
    /\ files' = files \cup {"ann"}
    /\ unreadable' = unreadable \ {"ann"}
    /\ bpc' = "idle"
    /\ bresult' = "ok"
    /\ UNCHANGED <<embFile, idsFile, dfFile, corpus, overwrite, ids, df,
                   old_ids, old_embeddings, old_df, merged, dropped>>

BuilderNext ==
    \/ IndexBegin
    \/ SaveEmbeddings
    \/ SaveIds
    \/ SaveDataframe
    \/ BuildAndSaveIndex

\* the index location after index_documents(c) has completed on an empty location
BuiltFrom(c) ==
    /\ files = {"emb", "ids", "df", "ann"}
    /\ embFile = ModelIndexVectors(c)
    /\ idsFile = WriteIdLines(ModelIndexIds(c))
    /\ dfFile = ToCsv(NewDataframe(c))
    /\ annFile = [ids |-> ModelIndexIds(c), vectors |-> Normalize(ModelIndexVectors(c))]
    /\ bpc = "idle"
    /\ corpus = c
    /\ overwrite = FALSE
    /\ ids = ModelIndexIds(c)
    /\ embeddings = Normalize(ModelIndexVectors(c))
    /\ df = NewDataframe(c)
    /\ old_ids = <<>>
    /\ old_embeddings = <<>>
    /\ old_df = <<>>
    /\ merged = FALSE
    /\ dropped = 0
    /\ unreadable = {}
    /\ bresult = "ok"

----------------------------------------------------------------------------
(* The retriever: SentenceSearcher and SimilarityRanker                    *)

MaxReturns == 2
MaxCandidates == 3

\* the score levels a provider answers with: enough for ties and for inversions
Scores == {1, 2}

Queries == { <<"cat">>, <<"dog">> }

NoCall == [name |-> "none"]

\* no SentenceSearcher is loaded
SearcherIdle ==
    /\ r_ids = <<>>
    /\ r_data = <<>>
    /\ n_returns = 0
    /\ sop = NoCall
    /\ sresult = "none"
    /\ sout = <<>>
    /\ simout = <<>>

\* injective sequences of length n over the set S
InjectiveSeqs(S, n) == { f \in [1..n -> S] : \A i, j \in 1..n : i # j => f[i] # f[j] }

\* sequences of n scores that do not increase
SortedScores(n) ==
    { f \in [1..n -> Scores] : \A i \in 1..(n - 1) : f[i] >= f[i + 1] }

\* embedder.search(query, limit): the Approximate Index answers with at most limit
\* of the positions it holds, best first, and txtai maps each position to
\* config["ids"][position]; which positions is the index's choice
AnnSearchResults(idlist, limit) ==
    UNION { { [i \in 1..n |-> <<idlist[pos[i]], sc[i]>>] :
                pos \in InjectiveSeqs(1..Len(idlist), n), sc \in SortedScores(n) } :
            n \in 0..Min(limit, Len(idlist)) }

\* lines 228-229: self.data[self.data["paragraph_id"] == doc_id]["text"], the Series
\* of the text of every row that carries the id
TextSeries(data, doc_id) ==
    LET rows == SelectSeq(data, LAMBDA r : r.paragraph_id = doc_id)
    IN  [i \in 1..Len(rows) |-> rows[i].text]

\* lines 221-232: the three parallel lists retrieve_topn returns
RetrieveTopnResult(data, retrieved) ==
    [doc_texts  |-> [i \in 1..Len(retrieved) |-> TextSeries(data, retrieved[i][1])],
     doc_ids    |-> [i \in 1..Len(retrieved) |-> retrieved[i][1]],
     doc_scores |-> [i \in 1..Len(retrieved) |-> retrieved[i][2]]]

\* lines 178-185: one record per (idx, score) the provider returned, in its order;
\* idx is the 0-based position of the candidate
ReRankRecords(provided, texts, idlist) ==
    [j \in 1..Len(provided) |->
        [score |-> provided[j][2],
         id    |-> idlist[provided[j][1] + 1],
         text  |-> texts[provided[j][1] + 1]]]

\* The Similarity Provider's interface: for n candidates, one (idx, score) pair per
\* candidate, idx 0-based; the order of the pairs is the provider's own
SimilarityOutputs(n) ==
    { [j \in 1..n |-> <<perm[j] - 1, sc[j]>>] :
        perm \in InjectiveSeqs(1..n, n), sc \in [1..n -> Scores] }

\* SentenceSearcher.__init__ on an index location that index_documents(c) filled:
\* embedder.load reads the saved config ids, self.data is read from data.csv
SearcherLoaded ==
    /\ r_ids = annFile.ids
    /\ r_data = ReadCsv(dfFile)
    /\ n_returns \in 1..MaxReturns
    /\ sop = NoCall
    /\ sresult = "none"
    /\ sout = <<>>
    /\ simout = <<>>

\* retrieve_topn(query), the signature of line 219
RetrieveTopn ==
    /\ sop = NoCall
    /\ \E q \in Queries, retrieved \in AnnSearchResults(r_ids, n_returns) :
        /\ sop' = [name |-> "retrieve_topn", query |-> q]
        /\ sresult' = "ok"
        /\ sout' = RetrieveTopnResult(r_data, retrieved)
        /\ UNCHANGED <<r_ids, r_data, n_returns, simout>>

\* retrieve_topn(query, k), as lines 82 and 244 call it: the method takes one
\* argument besides self, so the call raises TypeError before the body runs
RetrieveTopnK ==
    /\ sop = NoCall
    /\ \E q \in Queries, k \in 1..MaxReturns :
        /\ sop' = [name |-> "retrieve_topn", query |-> q, k |-> k]
        /\ sresult' = "TypeError"
        /\ sout' = <<>>
        /\ UNCHANGED <<r_ids, r_data, n_returns, simout>>

\* search(query), lines 244-245: retrieve_topn(query, self.n_returns) raises, and
\* nothing catches it, so re_rank is never reached
Search ==
    /\ sop = NoCall
    /\ \E q \in Queries :
        /\ sop' = [name |-> "search", query |-> q]
        /\ sresult' = "TypeError"
        /\ sout' = <<>>
        /\ UNCHANGED <<r_ids, r_data, n_returns, simout>>

\* the caller has taken what the call returned or raised; the searcher is as loaded
CallReturns ==
    /\ sop # NoCall
    /\ sop' = NoCall
    /\ sresult' = "none"
    /\ sout' = <<>>
    /\ simout' = <<>>
    /\ UNCHANGED <<r_ids, r_data, n_returns>>

\* the parallel candidate lists a re_rank call is given
CandidateLists ==
    UNION { [1..n -> CorpusPassages] : n \in 1..MaxCandidates }

\* SimilarityRanker.re_rank(query, texts, ids); the provider answers or raises
ReRank ==
    /\ sop = NoCall
    /\ \E q \in Queries, cand \in CandidateLists :
        LET texts  == [i \in 1..Len(cand) |-> cand[i].text]
            idlist == [i \in 1..Len(cand) |-> cand[i].id]
        IN  /\ sop' = [name |-> "re_rank", query |-> q, texts |-> texts, ids |-> idlist]
            /\ \/ \E provided \in SimilarityOutputs(Len(cand)) :
                    /\ simout' = provided
                    /\ sresult' = "ok"
                    /\ sout' = ReRankRecords(provided, texts, idlist)
               \/ /\ simout' = <<>>
                  /\ sresult' = "ProviderError"
                  /\ sout' = <<>>
            /\ UNCHANGED <<r_ids, r_data, n_returns>>

----------------------------------------------------------------------------
(* Python dicts                                                            *)

DictKeys(d) == [i \in 1..Len(d) |-> d[i][1]]

DictValues(d) == [i \in 1..Len(d) |-> d[i][2]]

\* k in d
HasKey(d, k) == \E i \in 1..Len(d) : d[i][1] = k

\* d[k], for a key of d
Get(d, k) == d[CHOOSE i \in 1..Len(d) : d[i][1] = k][2]

\* a mapping that keeps the first value stored under a key
PutKeepsFirst(d, k, v) == IF HasKey(d, k) THEN d ELSE Append(d, <<k, v>>)

\* d[k] = v: a key already in d keeps its place, a new key goes last
Put(d, k, v) ==
    IF HasKey(d, k)
    THEN [i \in 1..Len(d) |-> IF d[i][1] = k THEN <<k, v>> ELSE d[i]]
    ELSE Append(d, <<k, v>>)

\* {**a, **b}
RECURSIVE Merge(_, _)
Merge(a, b) == IF b = <<>> THEN a ELSE Merge(Put(a, Head(b)[1], Head(b)[2]), Tail(b))

\* {k: d[k] for k in keys}
RECURSIVE Restrict(_, _)
Restrict(d, keys) ==
    IF keys = <<>> THEN <<>>
    ELSE Put(Restrict(d, SubSeq(keys, 1, Len(keys) - 1)), keys[Len(keys)], Get(d, keys[Len(keys)]))

----------------------------------------------------------------------------
(* add_gold_standard, lines 98-158                                         *)

Digits == <<"0", "1", "2", "3", "4", "5", "6", "7", "8", "9">>

IsDigit(c) == c \in Range(Digits)

DigitVal(c) == (CHOOSE i \in 1..10 : Digits[i] = c) - 1

\* ord(c), for the characters keys are made of
CharCode(c) ==
    IF IsDigit(c) THEN 48 + DigitVal(c)
    ELSE CASE c = " " -> 32 [] c = "D" -> 68 [] c = "c" -> 99 [] c = "q" -> 113
           [] OTHER -> 127

\* a < b for Python strings
RECURSIVE StrLess(_, _)
StrLess(a, b) ==
    IF a = <<>> THEN b # <<>>
    ELSE IF b = <<>> THEN FALSE
    ELSE IF CharCode(Head(a)) # CharCode(Head(b)) THEN CharCode(Head(a)) < CharCode(Head(b))
    ELSE StrLess(Tail(a), Tail(b))

\* int(s) for a string of digits
RECURSIVE ParseInt(_)
ParseInt(s) ==
    IF s = <<>> THEN 0
    ELSE 10 * ParseInt(SubSeq(s, 1, Len(s) - 1)) + DigitVal(s[Len(s)])

\* str(n) for n >= 0
RECURSIVE FormatInt(_)
FormatInt(n) ==
    IF n < 10 THEN <<Digits[n + 1]>>
    ELSE FormatInt(n \div 10) \o <<Digits[(n % 10) + 1]>>

\* str(0) * n
Zeros(n) == [i \in 1..n |-> "0"]

\* line 113: sorted([*mydict.keys()])[-1]
LastSortedKey(d) ==
    CHOOSE k \in Range(DictKeys(d)) : \A o \in Range(DictKeys(d)) : o = k \/ StrLess(o, k)

\* lines 111-119: add_key
AddKey(d) ==
    LET last_key == LastSortedKey(d)
        key_len  == Len(last_key) - 1
        new_num  == FormatInt(ParseInt(Tail(last_key)) + 1)
    IN  <<Head(last_key)>> \o Zeros(key_len - Len(new_num)) \o new_num

\* lines 122-129 and 132-139: every value not yet among the dict's values is stored
\* under the key add_key makes
RECURSIVE AddMissing(_, _)
AddMissing(d, values) ==
    IF values = <<>> THEN d
    ELSE AddMissing(IF Head(values) \in Range(DictValues(d)) THEN d
                    ELSE Put(d, AddKey(d), Head(values)),
                    Tail(values))

\* lines 142-143: {v: k for k, v in d.items()}[v], the last key that holds v
ReverseGet(d, v) ==
    d[CHOOSE i \in 1..Len(d) : d[i][2] = v /\ \A j \in 1..Len(d) : d[j][2] = v => j <= i][1]

\* line 108: x.split(';')
DocsSplit(document) == SplitOn(document, ";")

\* line 109: the distinct documents of the gold rows
GoldDocs(gold) == UNION { Range(DocsSplit(gold[i].document)) : i \in 1..Len(gold) }

\* lines 144-156: one (query, document) pair of a gold row
AddRelation(correct, q_id, d_id) ==
    IF HasKey(correct, q_id)
    THEN IF d_id \in Range(Get(correct, q_id)) THEN correct
         ELSE Put(correct, q_id, Append(Get(correct, q_id), d_id))
    ELSE Put(correct, q_id, <<d_id>>)

RECURSIVE AddRelations(_, _, _, _)
AddRelations(correct, pairs, queries, collection) ==
    IF pairs = <<>> THEN correct
    ELSE AddRelations(AddRelation(correct, ReverseGet(queries, Head(pairs)[1]),
                                  ReverseGet(collection, Head(pairs)[2])),
                      Tail(pairs), queries, collection)

\* the (query_clean, document) pairs in the order lines 144-147 visit them
GoldPairs(gold) ==
    Cat([i \in 1..Len(gold) |->
            LET docs == DocsSplit(gold[i].document)
            IN  [j \in 1..Len(docs) |-> <<gold[i].query_clean, docs[j]>>]])

\* lines 147-148: reverse_q[q] or reverse_d[j] raises KeyError when a gold row's
\* query or document is not (or no longer) a value of the mapping
GoldStandardRaises(loaded, gold, all_docs) ==
    LET queries    == AddMissing(loaded.queries, [i \in 1..Len(gold) |-> gold[i].query_clean])
        collection == AddMissing(loaded.collection, all_docs)
        pairs      == GoldPairs(gold)
    IN  \E i \in 1..Len(pairs) :
            \/ pairs[i][1] \notin Range(DictValues(queries))
            \/ pairs[i][2] \notin Range(DictValues(collection))

\* add_gold_standard(intel, gold); all_docs is the order list(set(...)) happened
\* to give the distinct documents
AddGoldStandard(loaded, gold, all_docs) ==
    LET queries    == AddMissing(loaded.queries, [i \in 1..Len(gold) |-> gold[i].query_clean])
        collection == AddMissing(loaded.collection, all_docs)
    IN  [queries    |-> queries,
         collection |-> collection,
         correct    |-> AddRelations(loaded.correct, GoldPairs(gold), queries, collection),
         incorrect  |-> loaded.incorrect]

----------------------------------------------------------------------------
(* The training-data miner: scripts/make_training_data.py                  *)

MaxMatching == 2

\* the slice bounds the script hard-codes
FirstRows == 20
ShortTokens == 150
ParagraphTokens == 400

Passes == {"correct", "incorrect", "neutral"}

\* the label a pass writes (lines 332, 340, 252)
PassLabel(p) == CASE p = "correct" -> 1 [] p = "incorrect" -> -1 [] OTHER -> 0

\* ' '.join(text.split(' ')[:n])
TruncateTokens(text, n) == JoinWith(Take(SplitOn(text, " "), n), " ")

\* line 323: data['doc_id'] = data['paragraph_id'].apply(lambda x: x.split('.pdf')[0])
AddDocId(data) ==
    [i \in 1..Len(data) |->
        [text |-> data[i].text, paragraph_id |-> data[i].paragraph_id,
         doc_id |-> SplitFirst(data[i].paragraph_id, Pdf)]]

\* the first rows of the table, of whatever document
AnyRows(data, doc_id) == Take(data, FirstRows)

\* line 42: data[data["doc_id"] == doc_id].index[:20], as rows
DocRows(data, doc_id) == Take(SelectSeq(data, LAMBDA r : r.doc_id = doc_id), FirstRows)

\* The Similarity Provider as the miner meets it: every answer for short candidate
\* lists, the two extreme orders for long ones
MinerSimilarityOutputs(n) ==
    IF n <= MaxCandidates THEN SimilarityOutputs(n)
    ELSE { [j \in 1..n |-> <<j - 1, 2>>], [j \in 1..n |-> <<n - j, 1>>] }

\* a slice that keeps the end of the list instead of its start
KeepLast(ranked, n_matching) ==
    SubSeq(ranked, Len(ranked) - Min(n_matching, Len(ranked)) + 1, Len(ranked))

\* line 57: ranked[:n_matching]
KeepTop(ranked, n_matching) == Take(ranked, n_matching)

\* lines 39-57: get_best_paragraphs, every way it can end.  raised: an exception left
\* the function (line 44 on a text that is NaN); sim: what became of the re_rank call
GetBestParagraphs(data, doc_id, n_matching) ==
    LET rows   == DocRows(data, doc_id)
        idlist == [j \in 1..Len(rows) |-> rows[j].paragraph_id]
        pars   == [j \in 1..Len(rows) |-> TruncateTokens(rows[j].text, ShortTokens)]
    IN  IF \E j \in 1..Len(rows) : rows[j].text = NaN
        THEN { [raised |-> TRUE, ids |-> <<>>, sim |-> "none", ranked |-> <<>>,
                matching |-> <<>>] }
        ELSE IF Len(idlist) > 1
        THEN { [raised |-> FALSE, ids |-> idlist, sim |-> "answered",
                ranked |-> ReRankRecords(provided, pars, idlist),
                matching |-> KeepTop(ReRankRecords(provided, pars, idlist), n_matching)] :
                    provided \in MinerSimilarityOutputs(Len(idlist)) }
             \cup { [raised |-> FALSE, ids |-> idlist, sim |-> "raised", ranked |-> <<>>,
                     matching |-> <<>>] }
        ELSE IF Len(idlist) = 1
        THEN { [raised |-> FALSE, ids |-> idlist, sim |-> "none",
                ranked |-> << [score |-> "na", id |-> idlist[1], text |-> pars[1]] >>,
                matching |-> KeepTop(<< [score |-> "na", id |-> idlist[1],
                                         text |-> pars[1]] >>, n_matching)] }
        ELSE { [raised |-> FALSE, ids |-> idlist, sim |-> "none", ranked |-> <<>>,
                matching |-> <<>>] }

\* lines 59-64: check_no_match
CheckNoMatch(expected_id, par_id) ==
    LStrip(Strip(Upper(SplitFirst(par_id, Pdf)))) # LStrip(Strip(Upper(expected_id)))

\* lines 84-90: the loop over the retrieved ids; the first id without a row, or whose
\* text is NaN, raises, and line 96 returns what was appended until then
RECURSIVE NegativeParagraphs(_, _, _, _)
NegativeParagraphs(data, query, doc_id, doc_ids) ==
    IF doc_ids = <<>> THEN <<>>
    ELSE LET par_id == Head(doc_ids)
             rows   == SelectSeq(data, LAMBDA r : r.paragraph_id = par_id)
         IN  IF rows = <<>> \/ rows[1].text = NaN THEN <<>>
             ELSE (IF CheckNoMatch(doc_id, par_id)
                   THEN << [query |-> query, doc |-> par_id,
                            paragraph |-> TruncateTokens(rows[1].text, ShortTokens),
                            label |-> 0] >>
                   ELSE <<>>)
                  \o NegativeParagraphs(data, query, doc_id, Tail(doc_ids))

\* line 82: retriever.retrieve_topn(query, n_returns).  The SentenceSearcher of
\* model.py raises TypeError; a retriever with the two-argument interface answers
\* with the ids of at most n_returns passages
RetrieverAnswers(takesK, idlist, k) ==
    IF takesK
    THEN { [raises |-> FALSE, doc_ids |-> [j \in 1..Len(r) |-> r[j][1]]] :
            r \in AnnSearchResults(idlist, k) }
    ELSE { [raises |-> TRUE, doc_ids |-> <<>>] }

\* str(i) + '_' + str(k)
Uid(i, k) == i \o <<"_">> \o k

\* lines 205-208: the (uid, example) writes of one pair of collect_matches, in order
MatchWrites(i, query, doc, label, matching) ==
    [j \in 1..Len(matching) |->
        <<Uid(i, matching[j].id),
          [query |-> query, doc |-> doc,
           paragraph |-> TruncateTokens(matching[j].text, ParagraphTokens),
           label |-> label]>>]

\* lines 249-252: the (uid, example) writes of one pair of collect_negative_samples
NegativeWrites(i, query, doc, not_matching) ==
    [j \in 1..Len(not_matching) |->
        <<Uid(i, not_matching[j].doc),
          [query |-> query, doc |-> doc,
           paragraph |-> TruncateTokens(not_matching[j].paragraph, ParagraphTokens),
           label |-> 0]>>]

\* lines 208 and 252: found[uid] = example, for each write in turn
RECURSIVE StoreAll(_, _)
StoreAll(fnd, writes) ==
    IF writes = <<>> THEN fnd
    ELSE StoreAll(Put(fnd, Head(writes)[1], Head(writes)[2]), Tail(writes))

\* Python's round(num / den) for num >= 0, den > 0: halves go to the even neighbour
RoundHalfEven(num, den) ==
    LET q == num \div den
        r == num % den
    IN  IF 2 * r < den THEN q
        ELSE IF 2 * r > den THEN q + 1
        ELSE IF q % 2 = 0 THEN q ELSE q + 1

\* line 163: round(len(data) * tts_ratio), the ratio given as <<num, den>>
TrainSize(n, ratio) == RoundHalfEven(n * ratio[1], ratio[2])

\* lines 163-170: train_test_split, for every sample random.sample can draw
TrainTestSplit(data, ratio) ==
    { [train |-> Restrict(data, train_keys),
       test  |-> Restrict(data, SelectSeq(DictKeys(data),
                                          LAMBDA k : k \notin Range(train_keys)))] :
        train_keys \in InjectiveSeqs(Range(DictKeys(data)), TrainSize(Len(data), ratio)) }

\* a count that takes every entry, whatever its label
CountAny(d, label) == Len(d)

\* lines 372-384: len([i for i in d if d[i]['label'] == label])
CountLabel(d, label) == Cardinality({ j \in 1..Len(d) : d[j][2].label = label })

\* lines 393-395: f"{str(a)} train / {str(b)} test"
TrainTestText(a, b) ==
    FormatInt(a) \o <<" ", "train", " ", "/", " ">> \o FormatInt(b) \o <<" ", "test">>

\* lines 391-399, without the date
Metadata(trn, tst, ratio) ==
    [n_positive_samples |-> TrainTestText(CountLabel(trn, 1), CountLabel(tst, 1)),
     n_neutral_samples  |-> TrainTestText(CountLabel(trn, 0), CountLabel(tst, 0)),
     n_negative_samples |-> TrainTestText(CountLabel(trn, -1), CountLabel(tst, -1)),
     train_size  |-> Len(trn),
     test_size   |-> Len(tst),
     split_ratio |-> ratio]

----------------------------------------------------------------------------
(* The inputs of a mining run                                              *)

Key(prefix, n) == <<prefix, n>>

Doc(n) == <<"D", n>>

\* a corpus entry whose id is "<doc>.pdf_<num>"
Passage(doc, num, text) == [id |-> doc \o Pdf \o <<"_">> \o num, text |-> text]

\* the index the miner reads: two passages of D1, one of D2, and one of D3 whose
\* text read_csv turns into NaN
SmallCorpus ==
    << Passage(Doc("1"), <<"0">>, <<"the", " ", "cat", " ", "sat">>),
       Passage(Doc("1"), <<"1">>, <<"a", " ", "cat">>),
       Passage(Doc("2"), <<"0">>, <<"a", " ", "dog", " ", "ran">>),
       Passage(Doc("3"), <<"0">>, <<"NA">>) >>

\* an index in which D1 has one passage more than line 42 keeps
LongCorpus ==
    [n \in 1..(FirstRows + 1) |->
        Passage(Doc("1"), FormatInt(n - 1), <<"cat", " ">> \o FormatInt(n - 1))]
    \o << Passage(Doc("2"), <<"0">>, <<"a", " ", "dog", " ", "ran">>) >>

\* a text of n tokens with the one-symbol separator sep between them
TokensText(n, sep) == [i \in 1..(2 * n - 1) |-> IF i % 2 = 1 THEN "cat" ELSE sep]

\* an index in which the passage of D1 has one token more than line 207 keeps, the
\* tokens separated by tabs
TabbedCorpus ==
    << Passage(Doc("1"), <<"0">>, TokensText(ParagraphTokens + 1, "\t")),
       Passage(Doc("2"), <<"0">>, <<"a", " ", "dog", " ", "ran">>) >>

BaseQueries ==
    << <<Key("q", "1"), <<"cat">>>>, <<Key("q", "2"), <<"dog">>>> >>

BaseCollection ==
    << <<Key("c", "1"), Doc("1")>>, <<Key("c", "2"), Doc("2")>>, <<Key("c", "3"), Doc("3")>> >>

Intel(correct, incorrect) ==
    [queries |-> BaseQueries, collection |-> BaseCollection,
     correct |-> correct, incorrect |-> incorrect]

Rel(q, cs) == <<Key("q", q), [j \in 1..Len(cs) |-> Key("c", cs[j])]>>

\* (correct, incorrect) relation mappings of intelligent_search_data.json:
\* one pair
OnePair == << <<Rel("1", <<"1">>)>>, <<>> >>

\* the same pair judged both ways
SamePairBothWays == << <<Rel("1", <<"1">>)>>, <<Rel("1", <<"1">>)>> >>

\* one query with a correct and an incorrect document
OneQueryBothWays == << <<Rel("1", <<"1">>)>>, <<Rel("1", <<"2">>)>> >>

\* one query with two correct documents
TwoDocuments == << <<Rel("1", <<"1", "2">>)>>, <<>> >>

\* a document whose only passage has no text, then a good one
UnreadableDocument == << <<Rel("1", <<"3", "1">>)>>, <<Rel("2", <<"2">>)>> >>

RelationChoices ==
    { OnePair, SamePairBothWays, OneQueryBothWays, TwoDocuments, UnreadableDocument,
      \* a query id that queries does not hold
      << <<Rel("9", <<"1">>), Rel("1", <<"1">>)>>, <<>> >>,
      \* a collection id that collection does not hold
      << <<Rel("1", <<"1">>)>>, <<Rel("2", <<"9", "2">>)>> >> }

\* the rows of gold_standard.csv after normalize_query
GoldChoices ==
    { << [query_clean |-> <<"cat">>, document |-> Doc("1") \o <<";">> \o Doc("2")] >>,
      << [query_clean |-> <<"bird">>, document |-> Doc("4") \o <<";">> \o Doc("5")] >> }

\* an index of one passage of D1 and one of D2, with ids that name their document
TwoPassages ==
    << Passage(Doc("1"), <<"0">>, <<"the", " ", "cat", " ", "sat">>),
       Passage(Doc("2"), <<"0">>, <<"a", " ", "dog", " ", "ran">>) >>

\* the same two passages as later passages of their documents
TwoPassagesLaterIds ==
    << Passage(Doc("1"), <<"3">>, <<"the", " ", "cat", " ", "sat">>),
       Passage(Doc("2"), <<"1">>, <<"a", " ", "dog", " ", "ran">>) >>

\* queries = {q1: "cat"}, collection = {c1: "D1"}, correct = {q1: [c1]}
OneRelation ==
    [queries |-> << <<Key("q", "1"), <<"cat">>>> >>,
     collection |-> << <<Key("c", "1"), Doc("1")>> >>,
     correct |-> <<Rel("1", <<"1">>)>>, incorrect |-> <<>>]

\* tts_ratio as <<numerator, denominator>>
Ratios == { <<1, 2>>, <<4, 5>> }

\* sampleViews: whether random.sample takes a dict view as its population, as the
\* interpreters up to 3.10 do; from 3.11 on it raises TypeError.
\* retriever: "given" for a caller that passes a loaded SentenceSearcher, "none" for
\* the default of line 267 (the call of lines 415-417).
\* sim_model_name: "dict" for a caller that passes a mapping with 'model_name', "name"
\* for a model name, which the default SIM_MODEL of line 21 is.
Scenario(readable, c, rel, gold, returns, matching, ratio, takesK, sampleViews) ==
    [readable |-> readable, corpus |-> c, intel |-> Intel(rel[1], rel[2]), gold |-> gold,
     n_returns |-> returns, n_matching |-> matching, tts_ratio |-> ratio,
     takesK |-> takesK, sampleViews |-> sampleViews,
     retriever |-> "given", sim_model_name |-> "dict"]

\* the runs explored: every relation choice with the SentenceSearcher of model.py,
\* five of them with a two-argument retriever, the gold standard rows, the long
\* index, one run whose relations file cannot be read, and the two-passage index with
\* one relation
Scenarios ==
    { Scenario(TRUE, SmallCorpus, rel, <<>>, 1, matching, ratio, FALSE, views) :
        rel \in RelationChoices, matching \in 1..MaxMatching, ratio \in Ratios,
        views \in BOOLEAN }
    \cup { Scenario(TRUE, SmallCorpus, rel, <<>>, returns, 1, <<1, 2>>, TRUE, TRUE) :
            rel \in { OnePair, SamePairBothWays, OneQueryBothWays, TwoDocuments },
            returns \in 1..MaxReturns }
    \cup { Scenario(TRUE, SmallCorpus, UnreadableDocument, <<>>, 1, 1, <<1, 2>>, TRUE, TRUE) }
    \cup { Scenario(TRUE, SmallCorpus, OnePair, gold, 1, 1, <<1, 2>>, FALSE, TRUE) :
            gold \in GoldChoices }
    \cup { Scenario(TRUE, LongCorpus, OnePair, <<>>, 1, matching, <<1, 2>>, FALSE, TRUE) :
            matching \in 1..MaxMatching }
    \cup { Scenario(FALSE, SmallCorpus, OnePair, <<>>, 1, 1, <<1, 2>>, FALSE, TRUE) }
    \cup { Scenario(TRUE, TabbedCorpus, OnePair, <<>>, 1, 1, <<1, 2>>, takesK, TRUE) :
            takesK \in BOOLEAN }
    \cup { [Scenario(TRUE, c, OnePair, <<>>, 1, matching, <<1, 2>>, FALSE, TRUE)
                EXCEPT !.intel = OneRelation, !.retriever = retriever] :
            c \in { TwoPassages, TwoPassagesLaterIds }, matching \in 1..MaxMatching,
            retriever \in {"given", "none"} }
    \cup { [Scenario(readable, SmallCorpus, OnePair, gold, 1, 1, <<1, 2>>, FALSE, TRUE)
                EXCEPT !.retriever = retriever, !.sim_model_name = sim_model_name] :
            readable \in BOOLEAN, gold \in GoldChoices,
            retriever \in {"given", "none"}, sim_model_name \in {"dict", "name"} }

----------------------------------------------------------------------------
(* make_training_data as a state machine                                   *)

NoPair == [pass |-> "none"]

NoSplit == [train |-> <<>>, test |-> <<>>]

\* the locals of a call that has not started
MinerLocalsInitial ==
    /\ intel = <<>>
    /\ bound = {}
    /\ loopPos = <<1, 1>>
    /\ found = <<>>
    /\ not_found = <<>>
    /\ passFound = [p \in Passes |-> <<>>]
    /\ passNotFound = [p \in Passes |-> <<>>]
    /\ lastPair = NoPair
    /\ visited = <<>>
    /\ writeLog = <<>>
    /\ splits = [p \in Passes |-> NoSplit]
    /\ notfound = <<>>
    /\ train = <<>>
    /\ test = <<>>
    /\ metadata = <<>>
    /\ written = {}
    /\ mresult = "none"

\* no mining run is under way
MinerIdle ==
    /\ margs = <<>>
    /\ mpc = "idle"
    /\ MinerLocalsInitial

\* make_training_data is called with index_path an index location that
\* index_documents filled, and with a SentenceSearcher loaded from it or without
\* retriever
MineInit ==
    /\ margs \in Scenarios
    /\ BuiltFrom(margs.corpus)
    /\ IF margs.retriever = "given" THEN SearcherLoaded /\ n_returns = 1 ELSE SearcherIdle
    /\ mpc = "begin"
    /\ MinerLocalsInitial
    /\ SplitImported(margs.sampleViews) /\ RecIdle /\ ReloadIdle /\ TrainIdle

searcherRest == <<r_ids, n_returns, sop, sresult, sout, simout>>

passLocals == <<loopPos, found, not_found, passFound, passNotFound, bound, lastPair,
                visited, writeLog>>

outputs == <<splits, notfound, train, test, metadata, written>>

\* a loader after whose failure the run goes on as if the file had been read
IntelBoundAnyway(readable) == TRUE

\* lines 295-300: intel is bound only when open_json and json.loads both return; the
\* except logs and binds nothing
IntelBound(readable) == readable

\* line 310: SimilarityRanker(sim_model_name, transformers_dir) reads
\* model_args['model_name'] (model.py, line 174), which raises TypeError on a str.
\* lines 312-318: without retriever, SentenceSearcher is called with the keywords
\* sim_model_name and transformer_path, which its __init__ (model.py, lines 203-209)
\* does not take: TypeError
LoadersRaise(args) == args.sim_model_name = "name" \/ args.retriever = "none"

\* lines 295-323: the relations are loaded and the gold standard added, the similarity
\* model and the retriever are set up, the table is taken from the retriever and
\* given its doc_id column.  When the file cannot be read the except of line 298
\* leaves intel unbound and line 304 raises; a KeyError of add_gold_standard is not
\* caught either, nor is the TypeError of line 310 or of line 314
Begin ==
    /\ mpc = "begin"
    /\ IF IntelBound(margs.readable)
       THEN \E all_docs \in InjectiveSeqs(GoldDocs(margs.gold),
                                          Cardinality(GoldDocs(margs.gold))) :
                IF GoldStandardRaises(margs.intel, margs.gold, all_docs)
                THEN /\ mresult' = "KeyError"
                     /\ mpc' = "failed"
                     /\ UNCHANGED <<intel, r_data>>
                ELSE IF LoadersRaise(margs)
                THEN /\ intel' = AddGoldStandard(margs.intel, margs.gold, all_docs)
                     /\ mresult' = "TypeError"
                     /\ mpc' = "failed"
                     /\ UNCHANGED r_data
                ELSE /\ intel' = AddGoldStandard(margs.intel, margs.gold, all_docs)
                     /\ r_data' = AddDocId(r_data)
                     /\ mpc' = "correct"
                     /\ UNCHANGED mresult
       ELSE /\ mresult' = "UnboundLocalError"
            /\ mpc' = "failed"
            /\ UNCHANGED <<intel, r_data>>
    /\ UNCHANGED <<margs, passLocals, outputs>>

\* the relations argument of the pass under way (lines 332, 340, 348)
Relations(p) ==
    CASE p = "correct" -> intel.correct
      [] p = "incorrect" -> intel.incorrect
      [] OTHER -> Merge(intel.correct, intel.incorrect)

\* the stage that follows a pass
AfterPass(p) ==
    CASE p = "correct" -> "incorrect"
      [] p = "incorrect" -> "neutral"
      [] OTHER -> "notfound"

\* where the two loops of a pass stand
InPass == mpc \in Passes
AtQuery == InPass /\ loopPos[1] <= Len(Relations(mpc))
CurI == Relations(mpc)[loopPos[1]][1]
CurDocs == Relations(mpc)[loopPos[1]][2]
AtPair == AtQuery /\ loopPos[2] <= Len(CurDocs)
CurK == CurDocs[loopPos[2]]
QueryKnown == HasKey(intel.queries, CurI)
DocKnown == HasKey(intel.collection, CurK)

\* found with the pair that raised stored under its backup uid
FoundAfterKeepsBackup(fnd, raised, i, k, query, doc, label, matching) ==
    IF raised
    THEN Put(fnd, Uid(i, k), [query |-> query, doc |-> doc, paragraph |-> <<>>,
                              label |-> label])
    ELSE StoreAll(fnd, MatchWrites(i, query, doc, label, matching))

\* lines 203-209: found after the try of one pair; when get_best_paragraphs raised,
\* nothing was written to it
FoundAfter(fnd, raised, i, k, query, doc, label, matching) ==
    IF raised THEN fnd
    ELSE StoreAll(fnd, MatchWrites(i, query, doc, label, matching))

\* lines 199-213: one (query id, collection id) pair of collect_matches
MinePair ==
    /\ mpc \in {"correct", "incorrect"}
    /\ AtPair /\ QueryKnown /\ DocKnown
    /\ LET query == Get(intel.queries, CurI)
           doc   == Get(intel.collection, CurK)
       IN  \E o \in GetBestParagraphs(r_data, doc, margs.n_matching) :
            /\ found' = FoundAfter(found, o.raised, CurI, CurK, query, doc, PassLabel(mpc),
                                   o.matching)
            /\ not_found' = IF o.raised
                            THEN Put(not_found, Uid(CurI, CurK),
                                     [query |-> query, doc |-> doc, label |-> PassLabel(mpc)])
                            ELSE not_found
            /\ lastPair' = [pass |-> mpc, i |-> CurI, k |-> CurK, query |-> query,
                         doc |-> doc, ids |-> o.ids, sim |-> o.sim, ranked |-> o.ranked,
                         matching |-> o.matching, raised |-> o.raised,
                         writes |-> IF o.raised THEN <<>>
                                    ELSE MatchWrites(CurI, query, doc, PassLabel(mpc),
                                                     o.matching)]
            /\ writeLog' = IF o.raised THEN writeLog
                           ELSE writeLog \o MatchWrites(CurI, query, doc, PassLabel(mpc),
                                                        o.matching)
    /\ loopPos' = <<loopPos[1], loopPos[2] + 1>>
    /\ visited' = Append(visited, <<CurI, CurK>>)
    /\ UNCHANGED <<margs, intel, r_data, mpc, bound, passFound, passNotFound, outputs,
                   mresult>>

\* lines 243-257: one pair of collect_negative_samples; line 248 hands the
\* collection id k, not the document, to get_negative_paragraphs
SamplePair ==
    /\ mpc = "neutral"
    /\ AtPair /\ QueryKnown /\ DocKnown
    /\ LET query == Get(intel.queries, CurI)
           doc   == Get(intel.collection, CurK)
       IN  \E a \in RetrieverAnswers(margs.takesK, r_ids, margs.n_returns) :
            LET not_matching == IF a.raises THEN <<>>
                                ELSE NegativeParagraphs(r_data, query, CurK, a.doc_ids)
            IN  /\ found' = StoreAll(found, NegativeWrites(CurI, query, doc, not_matching))
                /\ lastPair' = [pass |-> mpc, i |-> CurI, k |-> CurK, query |-> query,
                             doc |-> doc, raises |-> a.raises, doc_ids |-> a.doc_ids,
                             not_matching |-> not_matching,
                             writes |-> NegativeWrites(CurI, query, doc, not_matching)]
                /\ writeLog' = writeLog \o NegativeWrites(CurI, query, doc, not_matching)
    /\ loopPos' = <<loopPos[1], loopPos[2] + 1>>
    /\ visited' = Append(visited, <<CurI, CurK>>)
    /\ UNCHANGED <<margs, intel, r_data, mpc, bound, not_found, passFound, passNotFound,
                   outputs, mresult>>

\* lines 196-199 and 240-243: the documents of a query are done, the outer loop goes on
NextQuery ==
    /\ AtQuery /\ QueryKnown /\ ~AtPair
    /\ loopPos' = <<loopPos[1] + 1, 1>>
    /\ UNCHANGED <<margs, intel, r_data, mpc, bound, found, not_found, passFound,
                   passNotFound, lastPair, visited, writeLog, outputs, mresult>>

\* lines 215 and 259: the pass returns, and lines 330, 338, 349 bind its two results
PassReturns ==
    /\ InPass /\ ~AtQuery
    /\ passFound' = [passFound EXCEPT ![mpc] = found]
    /\ passNotFound' = [passNotFound EXCEPT ![mpc] = not_found]
    /\ bound' = bound \cup {mpc}
    /\ mpc' = AfterPass(mpc)
    /\ loopPos' = <<1, 1>>
    /\ found' = <<>>
    /\ not_found' = <<>>
    /\ lastPair' = NoPair
    /\ visited' = <<>>
    /\ writeLog' = <<>>
    /\ UNCHANGED <<margs, intel, r_data, outputs, mresult>>

\* lines 197, 200, 241, 244: queries[i] or collection[k] raises KeyError outside the
\* try of the loop body; the pass is left, the except of make_training_data logs, and
\* the two names the pass would have bound stay unbound
PassRaises ==
    /\ AtQuery
    /\ ~QueryKnown \/ (AtPair /\ ~DocKnown)
    /\ mpc' = AfterPass(mpc)
    /\ loopPos' = <<1, 1>>
    /\ found' = <<>>
    /\ not_found' = <<>>
    /\ lastPair' = NoPair
    /\ visited' = <<>>
    /\ writeLog' = <<>>
    /\ UNCHANGED <<margs, intel, r_data, bound, passFound, passNotFound, outputs, mresult>>

\* lines 358-362: the three not-found mappings are merged and written; a name that
\* no pass bound raises UnboundLocalError, which nothing catches
MergeNotFound ==
    /\ mpc = "notfound"
    /\ IF bound = Passes
       THEN /\ notfound' = Merge(Merge(passNotFound["correct"], passNotFound["incorrect"]),
                                 passNotFound["neutral"])
            /\ written' = written \cup {"not_found_search_pairs.json"}
            /\ mpc' = "split_correct"
            /\ UNCHANGED mresult
       ELSE /\ mresult' = "UnboundLocalError"
            /\ mpc' = "failed"
            /\ UNCHANGED <<notfound, written>>
    /\ UNCHANGED <<margs, intel, r_data, passLocals, splits, train, test, metadata>>

SplitOf == [split_correct |-> "correct", split_incorrect |-> "incorrect",
            split_neutral |-> "neutral"]

AfterSplit == [split_correct |-> "split_incorrect", split_incorrect |-> "split_neutral",
               split_neutral |-> "finish"]

\* lines 365-367: one call of train_test_split; where random.sample does not take
\* data.keys(), line 164 raises TypeError and nothing catches it
Split ==
    /\ mpc \in DOMAIN SplitOf
    /\ IF margs.sampleViews
       THEN /\ \E s \in TrainTestSplit(passFound[SplitOf[mpc]], margs.tts_ratio) :
                    splits' = [splits EXCEPT ![SplitOf[mpc]] = s]
            /\ mpc' = AfterSplit[mpc]
            /\ UNCHANGED mresult
       ELSE /\ mresult' = "TypeError"
            /\ mpc' = "failed"
            /\ UNCHANGED splits
    /\ UNCHANGED <<margs, intel, r_data, passLocals, notfound, train, test, metadata,
                   written>>

\* lines 368-411: the per-label splits are merged, counted and written
Finish ==
    /\ mpc = "finish"
    /\ LET trn == Merge(Merge(splits["correct"].train, splits["incorrect"].train),
                        splits["neutral"].train)
           tst == Merge(Merge(splits["correct"].test, splits["incorrect"].test),
                        splits["neutral"].test)
       IN  /\ train' = trn
           /\ test' = tst
           /\ metadata' = Metadata(trn, tst, margs.tts_ratio)
    /\ written' = written \cup {"training_data.json", "training_metadata.json"}
    /\ mresult' = "ok"
    /\ mpc' = "done"
    /\ UNCHANGED <<margs, intel, r_data, passLocals, splits, notfound>>

MineNext ==
    /\ \/ Begin
       \/ MinePair
       \/ SamplePair
       \/ NextQuery
       \/ PassReturns
       \/ PassRaises
       \/ MergeNotFound
       \/ Split
       \/ Finish
    /\ UNCHANGED <<builderVars, searcherRest, extVars>>

SpecMine == MineInit /\ [][MineNext]_vars

\* add_gold_standard on its own: relation files with one to ten queries and
\* documents, and gold standard tables of up to MaxGoldRows rows
MaxGoldRows == 2

QueryWords == <<"cat", "dog", "ant", "bee", "cow", "eel", "fox", "hen", "owl", "pig">>

ManyQueries(n) == [i \in 1..n |-> << <<"q">> \o FormatInt(i), <<QueryWords[i]>> >>]

ManyDocs(n) == [i \in 1..n |-> << <<"c">> \o FormatInt(i), <<"D">> \o FormatInt(i) >>]

GoldSizes == {1, 2, 9, 10}

GoldRows ==
    { [query_clean |-> <<"cat">>, document |-> Doc("1") \o <<";">> \o Doc("2")],
      [query_clean |-> <<"bird">>, document |-> Doc("1")],
      [query_clean |-> <<"fish">>, document |-> <<"D", "9", "8">>],
      [query_clean |-> <<"bird">>,
       document |-> <<"D", "9", "8">> \o <<";">> \o <<"D", "9", "9">>] }

GoldTables == UNION { [1..n -> GoldRows] : n \in 1..MaxGoldRows }

GoldScenarios ==
    { [Scenario(TRUE, SmallCorpus, OnePair, gold, 1, 1, <<1, 2>>, FALSE, TRUE)
            EXCEPT !.intel = [queries |-> ManyQueries(nq), collection |-> ManyDocs(nd),
                              correct |-> correct, incorrect |-> <<>>]] :
        gold \in GoldTables, nq \in GoldSizes, nd \in GoldSizes,
        correct \in { <<>>, <<Rel("1", <<"1">>)>> } }

GoldInit ==
    /\ margs \in GoldScenarios
    /\ BuiltFrom(margs.corpus)
    /\ SearcherLoaded
    /\ n_returns = 1
    /\ mpc = "begin"
    /\ MinerLocalsInitial
    /\ ExtIdle

GoldNext == Begin /\ UNCHANGED <<builderVars, searcherRest, extVars>>

SpecGold == GoldInit /\ [][GoldNext]_vars

----------------------------------------------------------------------------
(* The specifications                                                      *)

\* index_documents, called again and again on one index location
IndexInit == BuilderInit /\ SearcherIdle /\ MinerIdle /\ ExtIdle

IndexNext == BuilderNext /\ UNCHANGED <<searchVars, minerVars, extVars>>

SpecIndex == IndexInit /\ [][IndexNext]_vars

\* index_documents called on a location that is empty, or that holds the id list and
\* the table of an earlier index but no vector file
StaleLocation ==
    /\ \E c \in Corpora :
        \/ /\ files = {}
           /\ idsFile = <<>>
           /\ dfFile = <<>>
        \/ /\ files = {"ids", "df"}
           /\ idsFile = WriteIdLines(ModelIndexIds(c))
           /\ dfFile = ToCsv(NewDataframe(c))
    /\ embFile = <<>>
    /\ annFile = [ids |-> <<>>, vectors |-> <<>>]
    /\ bpc = "idle"
    /\ corpus = <<>>
    /\ overwrite = FALSE
    /\ ids = <<>>
    /\ embeddings = <<>>
    /\ df = <<>>
    /\ old_ids = <<>>
    /\ old_embeddings = <<>>
    /\ old_df = <<>>
    /\ merged = FALSE
    /\ dropped = 0
    /\ unreadable = {}
    /\ bresult = "none"

RebuildInit == StaleLocation /\ SearcherIdle /\ MinerIdle /\ ExtIdle

SpecRebuild == RebuildInit /\ [][IndexNext]_vars

\* index_documents with an Embedding Provider that can fail on a corpus entry; the
\* calls are followed up to the end of the first one the provider failed in
FaultyIndexNext ==
    /\ \/ dropped = 0 /\ IndexBegin
       \/ dropped = 0 /\ ProviderFails
       \/ SaveEmbeddings
       \/ SaveIds
       \/ SaveDataframe
       \/ BuildAndSaveIndex
    /\ UNCHANGED <<searchVars, minerVars, extVars>>

SpecFaultyIndex == IndexInit /\ [][FaultyIndexNext]_vars

\* the calls made on the shared location: index_documents with one passage that has
\* a text
SharedCorpora == { c \in Corpora : Len(c) = 1 /\ c[1].text \notin NaStrings }

SharedIndexBegin ==
    /\ bpc = "idle"
    /\ \E c \in SharedCorpora, ow \in BOOLEAN : IndexLocals(c, ow, 0)

\* the proper prefixes of a sequence: what a write that was cut short has put down
Prefixes(s) == { SubSeq(s, 1, k) : k \in 0..(Len(s) - 1) }

\* a csv row cut short: the text up to one of its symbols, or the whole text and the
\* paragraph id up to one of its characters
TornRows(row) ==
    { [text |-> t, paragraph_id |-> <<>>] : t \in Prefixes(row.text) \ {<<>>} }
    \cup { [text |-> row.text, paragraph_id |-> i] : i \in Prefixes(row.paragraph_id) }

\* data.csv after a to_csv that was cut short past the header line: some of the rows,
\* and possibly a part of the next one
CutCsv(rows) ==
    Prefixes(rows)
    \cup UNION { { Append(SubSeq(rows, 1, k), t) : t \in TornRows(rows[k + 1]) } :
                  k \in 0..(Len(rows) - 1) }

\* a write of the call under way fails (np.save at line 111, open or writelines at
\* lines 112-113, to_csv at line 116, or lines 119-131 and embedder.save at line 163)
\* and the exception leaves index_documents.  What was written before stays.  The file
\* under way is untouched when the failure comes before it is opened for writing;
\* otherwise it has been emptied and holds what was put down before the failure.  A
\* cut matrix, a table cut inside its header line and a cut saved index cannot be read
\* back.  embedder.save writes the config ids and the vectors, in an order of its
\* own: either may be the one that was replaced.
WriteFails ==
    /\ bpc \in {"save_embeddings", "save_ids", "save_dataframe", "build_ann"}
    /\ bpc' = "idle"
    /\ bresult' = "failed"
    /\ \/ UNCHANGED <<files, unreadable, embFile, idsFile, dfFile, annFile>>
       \/ /\ bpc = "save_embeddings"
          /\ embFile' \in Prefixes(embeddings)
          /\ files' = files \cup {"emb"}
          /\ unreadable' = unreadable \cup {"emb"}
          /\ UNCHANGED <<idsFile, dfFile, annFile>>
       \/ /\ bpc = "save_ids"
          /\ idsFile' \in Prefixes(WriteIdLines(ids))
          /\ files' = files \cup {"ids"}
          /\ UNCHANGED <<unreadable, embFile, dfFile, annFile>>
       \/ /\ bpc = "save_dataframe"
          /\ \/ dfFile' = <<>> /\ unreadable' = unreadable \cup {"df"}
             \/ dfFile' \in CutCsv(ToCsv(df)) /\ unreadable' = unreadable \ {"df"}
          /\ files' = files \cup {"df"}
          /\ UNCHANGED <<embFile, idsFile, annFile>>
       \/ /\ bpc = "build_ann"
          /\ \E i \in {annFile.ids, ids},
                v \in {annFile.vectors} \cup Prefixes(Normalize(embeddings)) :
                /\ annFile' = [ids |-> i, vectors |-> v]
                /\ unreadable' = IF i = ids /\ v = annFile.vectors /\ "ann" \in files
                                 THEN unreadable ELSE unreadable \cup {"ann"}
          /\ files' = files \cup {"ann"}
          /\ UNCHANGED <<embFile, idsFile, dfFile>>
    /\ UNCHANGED <<corpus, overwrite, ids, embeddings, df, old_ids, old_embeddings, old_df,
                   merged, dropped>>

\* line 213 of SentenceSearcher.__init__ on the index location as it is at this
\* moment: embedder.load reads the saved config ids, or raises
LoadEmbedder ==
    /\ n_returns = 0 /\ sop = NoCall /\ sresult = "none"
    /\ IF "ann" \in files \ unreadable
       THEN /\ r_ids' = annFile.ids
            /\ sop' = [name |-> "__init__"]
            /\ UNCHANGED sresult
       ELSE /\ sresult' = "LoadError"
            /\ UNCHANGED <<r_ids, sop>>
    /\ UNCHANGED <<r_data, n_returns, sout, simout>>

\* lines 215-217 on the index location as it is at this moment, which is later than
\* the moment of line 213: self.data is read from data.csv, or read_csv raises and no
\* searcher is constructed
ReadData ==
    /\ n_returns = 0 /\ sop = [name |-> "__init__"]
    /\ IF "df" \in files \ unreadable
       THEN /\ r_data' = ReadCsv(dfFile)
            /\ n_returns' = 1
            /\ UNCHANGED <<r_ids, sresult>>
       ELSE /\ sresult' = "ReadError"
            /\ r_ids' = <<>>
            /\ UNCHANGED <<r_data, n_returns>>
    /\ sop' = NoCall
    /\ UNCHANGED <<sout, simout>>

\* SentenceSearcher.__init__, lines 211-217
SearcherLoads == LoadEmbedder \/ ReadData

\* one index location shared by index_documents calls, which may fail at a write,
\* and a SentenceSearcher that loads it at any moment; followed up to the load, and
\* with no further call after a failed one
SharedNext ==
    \/ /\ n_returns = 0 /\ sresult = "none"
       /\ \/ bresult # "failed" /\ SharedIndexBegin
          \/ SaveEmbeddings
          \/ SaveIds
          \/ SaveDataframe
          \/ BuildAndSaveIndex
          \/ WriteFails
       /\ UNCHANGED <<searchVars, minerVars, extVars>>
    \/ LoadEmbedder /\ UNCHANGED <<builderVars, minerVars, extVars>>
    \/ ReadData /\ UNCHANGED <<builderVars, minerVars, extVars>>

SpecShared == IndexInit /\ [][SharedNext]_vars

\* calls on a SentenceSearcher loaded from a built index
SearchInit == (\E c \in Corpora : BuiltFrom(c)) /\ SearcherLoaded /\ MinerIdle /\ ExtIdle

SearchNext ==
    /\ RetrieveTopn \/ RetrieveTopnK \/ Search \/ CallReturns
    /\ UNCHANGED <<builderVars, minerVars, extVars>>

SpecSearch == SearchInit /\ [][SearchNext]_vars

\* calls of SimilarityRanker.re_rank
RerankInit == BuilderInit /\ SearcherIdle /\ MinerIdle /\ ExtIdle

RerankNext == (ReRank \/ CallReturns) /\ UNCHANGED <<builderVars, minerVars, extVars>>

SpecRerank == RerankInit /\ [][RerankNext]_vars

----------------------------------------------------------------------------
(* train_test_split and the generator seeded at line 18                     *)

MaxSplitCalls == 3

\* random.seed(42): the top byte of each 32-bit word the Mersenne Twister then
\* gives out, in order; getrandbits(k) is the top k bits of the next word
SeedBytes ==
    <<163, 28, 6, 189, 70, 62, 57, 35, 188, 26, 173, 189, 228, 139, 22, 151, 108, 8, 7, 23,
      55, 59, 129, 154, 6, 143, 50, 183, 166, 179, 139, 107, 56, 114, 150, 71, 207, 222, 1,
      194>>

\* n.bit_length()
RECURSIVE BitLength(_)
BitLength(n) == IF n = 0 THEN 0 ELSE 1 + BitLength(n \div 2)

RECURSIVE Pow2(_)
Pow2(k) == IF k = 0 THEN 1 ELSE 2 * Pow2(k - 1)

\* random.getrandbits(k) for 1 <= k <= 8, as the word at position pos gives it
GetRandBits(k, pos) == SeedBytes[pos] \div Pow2(8 - k)

\* random._randbelow(n) from generator position pos: <<the number, the new position>>;
\* words are drawn until one is below n
RECURSIVE RandBelow(_, _)
RandBelow(n, pos) ==
    IF n = 0 THEN <<0, pos>>
    ELSE IF pos >= Len(SeedBytes) THEN <<0, Len(SeedBytes) + 1>>
    ELSE LET r == GetRandBits(BitLength(n), pos + 1)
         IN  IF r < n THEN <<r, pos + 1>> ELSE RandBelow(n, pos + 1)

\* the loop of random.sample over a pool of at most 21 items: k picks, each moving the
\* last non-selected item into the vacancy; <<the picks, the new position>>
RECURSIVE SamplePool(_, _, _)
SamplePool(pool, k, pos) ==
    IF k = 0 THEN <<<<>>, pos>>
    ELSE LET n    == Len(pool)
             jp   == RandBelow(n, pos)
             j    == jp[1] + 1
             rest == [h \in 1..(n - 1) |-> IF h = j THEN pool[n] ELSE pool[h]]
             more == SamplePool(rest, k - 1, jp[2])
         IN  << <<pool[j]>> \o more[1], more[2] >>

\* lines 163-170: train_test_split(data, tts_ratio) with the generator at position pos
SeededSplit(data, ratio, pos) ==
    LET drawn      == SamplePool(DictKeys(data), TrainSize(Len(data), ratio), pos)
        train_keys == drawn[1]
    IN  [train |-> Restrict(data, train_keys),
         test  |-> Restrict(data, SelectSeq(DictKeys(data),
                                            LAMBDA k : k \notin Range(train_keys))),
         rng   |-> drawn[2]]

\* a found mapping of n examples
FoundOfSize(n) ==
    [i \in 1..n |->
        << Uid(Key("q", "1"), Doc("1") \o Pdf \o <<"_">> \o FormatInt(i - 1)),
           [query |-> <<"cat">>, doc |-> Doc("1"), paragraph |-> <<"a", " ", "cat">>,
            label |-> 1] >>]

MaxFound == 4

\* one call of train_test_split in the process that imported the module; where
\* random.sample does not take data.keys(), line 164 raises TypeError before anything
\* is drawn
SplitCall ==
    /\ Len(splitCalls) < MaxSplitCalls
    /\ \E n \in 0..MaxFound, ratio \in Ratios :
        IF dictViews
        THEN LET res == SeededSplit(FoundOfSize(n), ratio, rng)
             IN  /\ res.rng <= Len(SeedBytes)
                 /\ rng' = res.rng
                 /\ splitCalls' = Append(splitCalls,
                        [data |-> FoundOfSize(n), ratio |-> ratio, raised |-> "",
                         train |-> res.train, test |-> res.test])
        ELSE /\ splitCalls' = Append(splitCalls,
                    [data |-> FoundOfSize(n), ratio |-> ratio, raised |-> "TypeError",
                     train |-> <<>>, test |-> <<>>])
             /\ UNCHANGED rng
    /\ UNCHANGED dictViews

SplitInit ==
    /\ BuilderInit /\ SearcherIdle /\ MinerIdle
    /\ \E views \in BOOLEAN : SplitImported(views)
    /\ RecIdle /\ ReloadIdle /\ TrainIdle

SplitNext ==
    SplitCall /\ UNCHANGED <<builderVars, searchVars, minerVars, recVars, reloadVars, trainVars>>

SpecSplit == SplitInit /\ [][SplitNext]_vars

----------------------------------------------------------------------------
(* The user-graph recommender: src/recommender/recommend.py                 *)

MaxLimit == 2

\* the documents of the corpus directory and one search-history name that differs
\* from a corpus name by a trailing blank
RecDocs == { Doc("1"), Doc("2"), Doc("3") }

BlankDoc == Doc("1") \o <<" ">>

Searches == { <<"s", "1">>, <<"s", "2">> }

\* line 12: the names of the files of the corpus directory, in the order os.listdir
\* gives them
CorpusLists ==
    { <<Doc("1"), Doc("2"), Doc("3")>>, <<Doc("1"), Doc("3"), Doc("2")>>,
      <<Doc("1"), Doc("2")>> }

\* lines 37-39: the graph get_user_graph builds, as its set of <<search, document>>
\* edges (nx.Graph keeps one edge per pair)
UserGraphs == SUBSET (Searches \X (RecDocs \cup {BlankDoc}))

\* graph.adj[n]; None when n is no node (KeyError)
Nodes(g) == { e[1] : e \in g } \cup { e[2] : e \in g }

Adj(g, n) == { e[2] : e \in { d \in g : d[1] = n } } \cup { e[1] : e \in { d \in g : d[2] = n } }

\* lines 50-59: Counter(related), the number of times x is in related
RelatedCount(g, filename, x) ==
    IF x = filename THEN 0
    ELSE Cardinality({ i \in Adj(g, filename) : x \in Adj(g, i) })

\* lines 58-60: the keys of top: related is sorted, so the Counter lists its keys in
\* string order, and the stable sort by count (reverse=True) keeps that order
\* among equal counts
RECURSIVE TopKeys(_, _, _)
TopKeys(g, filename, left) ==
    IF left = {} THEN <<>>
    ELSE LET first == CHOOSE x \in left : \A y \in left \ {x} :
                          \/ RelatedCount(g, filename, x) > RelatedCount(g, filename, y)
                          \/ /\ RelatedCount(g, filename, x) = RelatedCount(g, filename, y)
                             /\ StrLess(x, y)
         IN  <<first>> \o TopKeys(g, filename, left \ {first})

\* lines 47-66: _lookup_history(filename)
LookupHistory(g, filename) ==
    IF filename \notin Nodes(g) THEN <<>>
    ELSE LET top == TopKeys(g, filename,
                            { x \in Nodes(g) : RelatedCount(g, filename, x) > 0 })
         IN  [i \in 1..Len(top) |-> Strip(SplitFirst(top[i], Pdf))]

\* lines 14-20
InCorpus(filename, list) == filename \in Range(list)

\* line 79: the test that lets the loop look at one more result
RoomLeft(results, limit) == Len(results) <= limit

\* lines 78-83: the loop over g_results
RECURSIVE CollectRecs(_, _, _, _)
CollectRecs(g_results, results, limit, list) ==
    IF g_results = <<>> THEN results
    ELSE IF RoomLeft(results, limit)
         THEN CollectRecs(Tail(g_results),
                          IF InCorpus(Head(g_results), list)
                          THEN Append(results, Head(g_results)) ELSE results,
                          limit, list)
         ELSE results

\* lines 73-87: get_recs once filename is a string
GetRecsOf(g, list, filename, limit) ==
    LET name == SplitFirst(filename, Pdf)
    IN  [raised   |-> "",
         filename |-> name,
         results  |-> CollectRecs(LookupHistory(g, name), <<>>, limit, list)]

\* the filename arguments of a call; <<>> stands for None
RecFilenames == { <<>>, Doc("1"), Doc("2") \o Pdf, Doc("4") }

MaxDrawn == 2

\* recommend.py imports random (line 5) and never seeds it: in a process that has not
\* imported make_training_data.py the generator is the one the random module seeded
\* from the operating system, and its state is not known
Unseeded == -1

\* line 71: random.choice(corpus_list) is corpus_list[_randbelow(len(corpus_list))],
\* drawn from the generator of the random module, the one make_training_data.py seeds
\* and train_test_split draws from: <<the choice, the new position>>
RandomChoice(list, pos) ==
    LET drawn == RandBelow(Len(list), pos)
    IN  <<list[drawn[1] + 1], drawn[2]>>

\* lines 68-87: one call get_recs(sample, limit, filename)
GetRecs ==
    \E sample \in BOOLEAN, limit \in 0..MaxLimit, filename \in RecFilenames :
        /\ rcall' = [called |-> TRUE, sample |-> sample, limit |-> limit, filename |-> filename]
        /\ \/ /\ filename # <<>>
              /\ rout' = GetRecsOf(graph, corpus_list, filename, limit)
              /\ UNCHANGED rng
           \/ /\ filename = <<>> /\ sample
              /\ rng # Unseeded
              /\ rng < MaxDrawn
              /\ LET chosen == RandomChoice(corpus_list, rng)
                 IN  /\ rout' = GetRecsOf(graph, corpus_list, chosen[1], limit)
                     /\ rng' = chosen[2]
           \/ /\ filename = <<>> /\ sample
              /\ rng = Unseeded
              /\ \E i \in 1..Len(corpus_list) :
                     rout' = GetRecsOf(graph, corpus_list, corpus_list[i], limit)
              /\ UNCHANGED rng
           \/ /\ filename = <<>> /\ ~sample
              /\ rout' = [raised |-> "AttributeError"]
              /\ UNCHANGED rng
        /\ UNCHANGED <<corpus_list, graph>>

\* the module is imported and a Recommender constructed, in a process that has
\* imported make_training_data.py as well (the generator is at the start of the
\* seed-42 stream) or one that has not (the generator is unseeded)
RecInit ==
    /\ BuilderInit /\ SearcherIdle /\ MinerIdle /\ ReloadIdle /\ TrainIdle
    /\ rng \in {0, Unseeded}
    /\ splitCalls = <<>>
    /\ dictViews = TRUE
    /\ corpus_list \in CorpusLists
    /\ graph \in UserGraphs
    /\ rcall = [called |-> FALSE]
    /\ rout = [raised |-> ""]

RecNext ==
    GetRecs /\ UNCHANGED <<builderVars, searchVars, minerVars, splitCalls, dictViews,
                           reloadVars, trainVars>>

SpecRecs == RecInit /\ [][RecNext]_vars

----------------------------------------------------------------------------
(* The /reloadModels handler and its thread: controls.py, lines 194-246     *)

\* A model_dict is a function from its keys to model names.
ModelKeys == {"sentence", "qexp", "transformer"}

ModelNames == {"a", "b"}

ModelDicts == UNION { [K -> ModelNames] : K \in SUBSET ModelKeys }

\* processmanager.update_status(processmanager.reloading, progress, total) as called
\* for request r
StatusReport(r, progress, total) ==
    [request |-> r, failed |-> FALSE, progress |-> progress, total |-> total]

\* lines 237-238: processmanager.update_status(processmanager.reloading, failed=True)
FailedReport(r) == [request |-> r, failed |-> TRUE]

\* lines 203-205 and 240-242: the handler takes total, reports progress 0 and starts
\* the thread
ReloadModels(r) ==
    /\ reloads[r].pc = "none"
    /\ \A q \in 1..(r - 1) : reloads[q].pc # "none"
    /\ \E model_dict \in ModelDicts :
        LET total == Cardinality(DOMAIN model_dict)
        IN  /\ reloads' = [reloads EXCEPT ![r] = [pc |-> "started", model_dict |-> model_dict,
                                                  total |-> total, progress |-> 0]]
            /\ reports' = Append(reports, StatusReport(r, 0, total))
    /\ UNCHANGED loadedPaths

\* one of the two blocks of reload_thread (lines 211-222 for "sentence", 223-234 for
\* "qexp"), a statement group at a time, other threads running in between:
\*   - the key is absent and the block is skipped;
\*   - the model is loaded and its path published (lines 212-218, 224-230), or the
\*     load raises;
\*   - progress is counted and reported (lines 219-222, 231-234)
ReloadBlock(r, key, from, loaded, to) ==
    LET model_dict == reloads[r].model_dict
        progress   == reloads[r].progress + 1
    IN  \/ /\ reloads[r].pc = from
           /\ key \notin DOMAIN model_dict
           /\ reloads' = [reloads EXCEPT ![r].pc = to]
           /\ UNCHANGED <<reports, loadedPaths>>
        \/ /\ reloads[r].pc = from
           /\ key \in DOMAIN model_dict
           /\ loadedPaths' = [loadedPaths EXCEPT ![key] = model_dict[key]]
           /\ reloads' = [reloads EXCEPT ![r].pc = loaded]
           /\ UNCHANGED reports
        \/ /\ reloads[r].pc = from
           /\ key \in DOMAIN model_dict
           /\ reloads' = [reloads EXCEPT ![r].pc = "raised"]
           /\ UNCHANGED <<reports, loadedPaths>>
        \/ /\ reloads[r].pc = loaded
           /\ reloads' = [reloads EXCEPT ![r].pc = to, ![r].progress = progress]
           /\ reports' = Append(reports, StatusReport(r, progress, reloads[r].total))
           /\ UNCHANGED loadedPaths

\* lines 211-222
LoadSentence(r) == ReloadBlock(r, "sentence", "started", "sentenceLoaded", "sentenceDone")

\* lines 223-234, after which the thread finishes
LoadQexp(r) == ReloadBlock(r, "qexp", "sentenceDone", "qexpLoaded", "finished")

\* lines 235-238: the except of reload_thread reports the failure, and the thread ends
ReportFailure(r) ==
    /\ reloads[r].pc = "raised"
    /\ reloads' = [reloads EXCEPT ![r].pc = "failed"]
    /\ reports' = Append(reports, FailedReport(r))
    /\ UNCHANGED loadedPaths

ReloadThread(r) == LoadSentence(r) \/ LoadQexp(r) \/ ReportFailure(r)

ReloadInit ==
    /\ BuilderInit /\ SearcherIdle /\ MinerIdle /\ ExtIdle

ReloadNext ==
    /\ \E r \in 1..MaxReloads :
          ReloadModels(r) \/ LoadSentence(r) \/ LoadQexp(r) \/ ReportFailure(r)
    /\ UNCHANGED <<builderVars, searchVars, minerVars, splitVars, recVars, trainVars>>

SpecReload == ReloadInit /\ [][ReloadNext]_vars

\* thread.start() at line 242 hands reload_thread to the scheduler, which runs every
\* started thread; a load returns or raises
SpecReloadLive ==
    SpecReload /\ \A r \in 1..MaxReloads : WF_vars(ReloadThread(r) /\ ReloadNext)

----------------------------------------------------------------------------
(* The /trainModel handler and its thread: controls.py, lines 271-334       *)

MaxTrainCalls == 2

\* lines 318-322: the training methods by build type
TrainingSwitch ==
    [sentence |-> "train_sentence", qexp |-> "train_qexp", sent_finetune |-> "finetune_sentence"]

\* the values of "build_type" in a request; "[sentence]" stands for a JSON list, which
\* is no hashable value
BuildTypes == {"sentence", "qexp", "sent_finetune", "evaluate", "[sentence]"}

Unhashable == {"[sentence]"}

\* a model_dict of /trainModel: "build_type" is there or not, and so are the
\* parameters the training methods read ("params" stands for those keys)
TrainDicts ==
    UNION { [K -> BuildTypes] : K \in {{}, {"build_type"}} }
    \cup { [k \in {"build_type", "params"} |-> IF k = "params" THEN "given" ELSE b] :
             b \in BuildTypes }
    \cup { [k \in {"params"} |-> "given"] }

\* the method line 324 once fixed for every request
AlwaysTrainSentence(model_dict) == "train_sentence"

\* lines 325-328: the value of training_method when line 328 reads it; "TypeError" when
\* the membership test of line 325 raises, "unbound" when line 326 was not reached
TrainingMethod(model_dict) ==
    IF "build_type" \notin DOMAIN model_dict THEN "unbound"
    ELSE IF model_dict["build_type"] \in Unhashable THEN "TypeError"
    ELSE IF model_dict["build_type"] \in DOMAIN TrainingSwitch
         THEN TrainingSwitch[model_dict["build_type"]]
    ELSE "unbound"

\* lines 280-334: the handler; the response starts with status 200 (line 271), line 328
\* raises when training_method is unbound, and line 333 sets 500 for any exception
TrainModel ==
    /\ Len(trainCalls) < MaxTrainCalls
    /\ \E model_dict \in TrainDicts :
        LET training_method == TrainingMethod(model_dict)
            raised          == training_method \in {"unbound", "TypeError"}
        IN  trainCalls' = Append(trainCalls,
                [model_dict |-> model_dict,
                 status     |-> IF raised THEN 500 ELSE 200,
                 threads    |-> IF raised THEN <<>> ELSE <<training_method>>,
                 outcome    |-> IF raised THEN "none" ELSE "running"])

\* lines 282-315: what the started method does: it reads its parameters from
\* model_dict (KeyError when they are missing) and runs the pipeline, which returns
\* or raises; train_sentence runs build type "sentence" (line 304), the other two
\* the request's build_type (lines 289 and 315)
PipelineBuildType(method, model_dict) ==
    IF method = "train_sentence" THEN "sentence" ELSE model_dict["build_type"]

TrainingThread(i) ==
    /\ trainCalls[i].outcome = "running"
    /\ \/ /\ "params" \in DOMAIN trainCalls[i].model_dict
          /\ trainCalls' = [trainCalls EXCEPT ![i].outcome =
                                PipelineBuildType(trainCalls[i].threads[1],
                                                  trainCalls[i].model_dict)]
       \/ trainCalls' = [trainCalls EXCEPT ![i].outcome = "raised"]

TrainInit ==
    /\ BuilderInit /\ SearcherIdle /\ MinerIdle /\ ExtIdle

TrainNext ==
    /\ TrainModel \/ \E i \in 1..Len(trainCalls) : TrainingThread(i)
    /\ UNCHANGED <<builderVars, searchVars, minerVars, splitVars, recVars, reloadVars>>

SpecTrain == TrainInit /\ [][TrainNext]_vars

----------------------------------------------------------------------------
(* Claims about the index builder                                          *)

PersistedIds == LoadOldIds(idsFile)
PersistedRows == ReadCsv(dfFile)
BuildDone == bpc = "idle" /\ bresult = "ok"

\* the text read_csv gives back for a text written by to_csv
CsvText(text) == IF text \in NaStrings THEN NaN ELSE text

\* C1 (index consistency): after every completed index_documents call, whatever the
\* mix of overwrite flags and corpora, the persisted vector matrix, id list and
\* metadata table have the same length, and position i of the three is the same
\* passage: row i carries id i, and vector i encodes the text of that passage.
C1_IndexConsistency ==
    BuildDone =>
        /\ Len(embFile) = Len(PersistedIds)
        /\ Len(PersistedIds) = Len(PersistedRows)
        /\ \A i \in 1..Len(PersistedIds) :
            /\ PersistedRows[i].paragraph_id = PersistedIds[i]
            /\ \E p \in CorpusPassages :
                /\ p.id = PersistedIds[i]
                /\ embFile[i].of = p.text
                /\ PersistedRows[i].text = CsvText(p.text)

\* an index extended twice without overwrite, after an earlier full rebuild
C1_Witness ==
    /\ BuildDone
    /\ merged
    /\ Len(old_ids) >= 2
    /\ Len(PersistedIds) = Len(old_ids) + Len(corpus)
    /\ \E i \in 1..Len(old_ids) : old_ids[i] \in Range(ModelIndexIds(corpus))

\* C2 (append order, no deduplication): a completed call that extends the persisted
\* index (overwrite False) leaves the id list equal to the ids persisted before
\* followed by the ids of the corpus, in that order, the vectors and metadata rows
\* concatenated the same way; an id of the corpus already persisted is kept, so it
\* occurs once more than before.
C2_AppendOrder ==
    (BuildDone /\ merged) =>
        /\ PersistedIds = old_ids \o ModelIndexIds(corpus)
        /\ embFile = old_embeddings \o ModelIndexVectors(corpus)
        /\ PersistedRows = old_df \o ReadCsv(ToCsv(NewDataframe(corpus)))
        /\ Len(old_ids) = Len(old_embeddings)
        /\ \A x \in Range(old_ids) \cap Range(ModelIndexIds(corpus)) :
            Cardinality({ i \in 1..Len(PersistedIds) : PersistedIds[i] = x })
                = Cardinality({ i \in 1..Len(old_ids) : old_ids[i] = x })
                  + Cardinality({ i \in 1..Len(corpus) : corpus[i].id = x })

\* an index built from one passage and extended with that same passage again
C2_Witness ==
    /\ BuildDone
    /\ merged
    /\ Len(old_ids) = 1
    /\ ModelIndexIds(corpus) = old_ids
    /\ PersistedIds = <<old_ids[1], old_ids[1]>>

----------------------------------------------------------------------------
(* Claims about the retriever                                              *)

NonIncreasing(scores) == \A j \in 1..(Len(scores) - 1) : scores[j] >= scores[j + 1]

\* C3 (retrieval bound): a retrieve_topn(q, k) call returns at most k results, each
\* with an id of the loaded index's id list.
C3_RetrievalBound ==
    (sop.name = "retrieve_topn" /\ "k" \in DOMAIN sop) =>
        /\ sresult = "ok"
        /\ Len(sout.doc_ids) <= sop.k
        /\ \A j \in 1..Len(sout.doc_ids) : sout.doc_ids[j] \in Range(r_ids)

\* C4 (search): a search(query) call on a loaded index returns the re-ranked
\* candidates, in descending order of score.
C4_SearchReturnsRanked ==
    sop.name = "search" =>
        /\ sresult = "ok"
        /\ NonIncreasing([j \in 1..Len(sout) |-> sout[j].score])

ReRankReturned == sop.name = "re_rank" /\ sresult = "ok"

\* the (id, text) pairs of the records are a permutation of the n input pairs
IsPermutationOfInput(recs, texts, idlist) ==
    /\ Len(recs) = Len(idlist)
    /\ \E perm \in InjectiveSeqs(1..Len(idlist), Len(idlist)) :
        \A j \in 1..Len(recs) :
            recs[j].id = idlist[perm[j]] /\ recs[j].text = texts[perm[j]]

\* C5 (rerank stability): for every provider output that satisfies the interface,
\* re_rank returns n records that permute the input pairs, with scores that do not
\* increase in output order.
C5_RerankSortedForAnyProvider ==
    ReRankReturned =>
        /\ IsPermutationOfInput(sout, sop.texts, sop.ids)
        /\ NonIncreasing([j \in 1..Len(sout) |-> sout[j].score])

\* what re_rank does instead: one record per (idx, score) pair of the provider's
\* output, in the provider's order, record j carrying the provider's j-th score and
\* the id and text of candidate idx
ReRankKeepsProviderOrder ==
    ReRankReturned =>
        /\ IsPermutationOfInput(sout, sop.texts, sop.ids)
        /\ \A j \in 1..Len(sout) :
            /\ sout[j].score = simout[j][2]
            /\ sout[j].id = sop.ids[simout[j][1] + 1]
            /\ sout[j].text = sop.texts[simout[j][1] + 1]

\* a re_rank of three distinct candidates whose provider put the last candidate
\* first and did not order its scores
ReRankOfUnorderedScores ==
    /\ ReRankReturned
    /\ Len(sout) = 3
    /\ Cardinality(Range(sop.ids)) = 3
    /\ simout[1][1] = 2
    /\ simout[1][2] < simout[2][2]
    /\ sout[1].id = sop.ids[3]

----------------------------------------------------------------------------
(* Claims about the training-data miner                                    *)

KeySet(d) == Range(DictKeys(d))

RunEnded == mpc \in {"done", "failed"}

MatchPairDone == lastPair.pass \in {"correct", "incorrect"}

NeutralPairDone == lastPair.pass = "neutral"

\* C6: label-split disjointness.  When a mining run has completed, the keys of the
\* merged train and the keys of the merged test are disjoint, and together they are
\* the keys the three passes found.
C6_TrainTestDisjoint ==
    mpc = "done" =>
        /\ KeySet(train) \cap KeySet(test) = {}
        /\ KeySet(train) \cup KeySet(test) = UNION { KeySet(passFound[p]) : p \in Passes }

\* the document a passage id resolves to, compared without case
ResolvedDoc(par_id) == Upper(SplitFirst(par_id, Pdf))

\* C7: negative-sample correctness.  Every neutral example the neutral pass writes
\* for a pair (i, k) comes from a retrieved passage whose resolved document id
\* differs, without regard to case, from the expected document collection[k].
C7_NeutralAvoidsExpectedDoc ==
    NeutralPairDone =>
        \A j \in 1..Len(lastPair.not_matching) :
            ResolvedDoc(lastPair.not_matching[j].doc) # Upper(Get(intel.collection, lastPair.k))

\* the positions of the first FirstRows rows of the table, in table order, whose
\* document is doc
FirstRowsOf(doc) ==
    LET of_doc == { j \in 1..Len(r_data) : r_data[j].doc_id = doc }
    IN  { j \in of_doc : Cardinality({ m \in of_doc : m < j }) < FirstRows }

\* C8: positive / confirmed-negative mining selection.  For the pair a pass has just
\* mined, the examples written are at most n_matching; each is a passage among the
\* first 20 table rows of the expected document; they are the first n_matching
\* records of what re-ranking those rows returned (the single row itself when there
\* is one, nothing when the provider raised); each carries the label of the pass and
\* the expected document, and is in found under query id + "_" + passage id.
C8_MiningSelection ==
    MatchPairDone =>
        /\ Len(lastPair.writes) <= margs.n_matching
        /\ Len(lastPair.writes) = Len(lastPair.matching)
        /\ lastPair.matching = SubSeq(lastPair.ranked, 1, Len(lastPair.matching))
        /\ Len(lastPair.matching) = Min(margs.n_matching, Len(lastPair.ranked))
        /\ Range(lastPair.ids) \subseteq { r_data[j].paragraph_id : j \in FirstRowsOf(lastPair.doc) }
        /\ \A j \in 1..Len(lastPair.ranked) : lastPair.ranked[j].id \in Range(lastPair.ids)
        /\ lastPair.doc = Get(intel.collection, lastPair.k)
        /\ \A j \in 1..Len(lastPair.writes) :
            LET uid     == lastPair.writes[j][1]
                example == lastPair.writes[j][2]
            IN  /\ uid = lastPair.i \o <<"_">> \o lastPair.matching[j].id
                /\ example.label = (IF lastPair.pass = "correct" THEN 1 ELSE -1)
                /\ example.doc = lastPair.doc
                /\ example.query = Get(intel.queries, lastPair.i)
                /\ HasKey(found, uid)
                /\ Get(found, uid).label = example.label
                /\ Get(found, uid).doc = example.doc

\* the positive pass has mined a document of 21 passages: 20 were re-ranked, the
\* provider put the 20th first, and two examples were written
C8_Witness ==
    /\ lastPair.pass = "correct"
    /\ Cardinality({ j \in 1..Len(r_data) : r_data[j].doc_id = lastPair.doc }) = FirstRows + 1
    /\ lastPair.sim = "answered"
    /\ Len(lastPair.ids) = FirstRows
    /\ margs.n_matching = 2
    /\ Len(lastPair.writes) = 2
    /\ lastPair.matching[1].id = lastPair.ids[FirstRows]
    /\ HasKey(found, lastPair.writes[1][1])

\* C9: when the re_rank call raises for a pair of the positive or confirmed-negative
\* pass, the pair is in the pass's not-found mapping and has no example in found.
C9_RerankFailureRecorded ==
    (MatchPairDone /\ lastPair.sim = "raised") =>
        /\ HasKey(not_found, Uid(lastPair.i, lastPair.k))
        /\ lastPair.writes = <<>>

\* a relation names a query id or a collection id that the mappings do not hold
Dangling(relations) ==
    \E j \in 1..Len(relations) :
        \/ ~HasKey(intel.queries, relations[j][1])
        \/ \E m \in 1..Len(relations[j][2]) : ~HasKey(intel.collection, relations[j][2][m])

\* C10: relation integrity errors are not fatal.  A run whose correct or incorrect
\* mapping names an id missing from queries or collection (its relations file being
\* readable and random.sample taking the key views) still binds the results of all
\* three passes, completes and writes its dataset.
C10_DanglingRelationNotFatal ==
    (/\ RunEnded
     /\ margs.readable
     /\ margs.sampleViews
     /\ Dangling(intel.correct) \/ Dangling(intel.incorrect)) =>
        /\ mresult = "ok"
        /\ "training_data.json" \in written
        /\ bound = Passes

\* the (query id, collection id) pairs of a relation mapping
PairsOf(relations) ==
    UNION { { <<relations[j][1], relations[j][2][m]>> : m \in 1..Len(relations[j][2]) } :
            j \in 1..Len(relations) }

\* the two loops of the pass under way have run to their end
PassLoopsDone == InPass /\ ~AtQuery

\* C11: neutral sampling covers the union of both relation mappings.  When the
\* neutral pass has gone through its relations, every (query id, collection id) pair
\* of correct and every pair of incorrect has had its retrieval, also when a query
\* id is a key of both mappings.
C11_NeutralCoversBothRelations ==
    (mpc = "neutral" /\ PassLoopsDone) =>
        PairsOf(intel.correct) \cup PairsOf(intel.incorrect) \subseteq Range(visited)

----------------------------------------------------------------------------
(* Further claims about the index builder                                  *)

\* C12: the vector matrix persisted at the index location is the unit-normalized
\* matrix, the one the Approximate Index is built over, so the vectors a later
\* extend loads from the location are normalized already.
C12_PersistedVectorsNormalized ==
    BuildDone =>
        /\ \A i \in 1..Len(embFile) : embFile[i].unit
        /\ embFile = annFile.vectors
        /\ merged => \A i \in 1..Len(old_embeddings) : old_embeddings[i].unit

\* the corpus of the last call without the entry the provider failed on
KeptEntries ==
    LET kept == SelectSeq([i \in 1..Len(corpus) |-> i], LAMBDA i : i # dropped)
    IN  [j \in 1..Len(kept) |-> corpus[kept[j]]]

\* C15: when the Embedding Provider fails for one passage of the corpus, the call
\* does not fail: it ends well, and the persisted ids, vectors and metadata rows are
\* those of the remaining passages (after what was persisted before, on an extend),
\* none of them holding the dropped passage's entry.
C15_ProviderFailureDropsPassage ==
    (dropped # 0 /\ bpc = "idle") =>
        /\ bresult = "ok"
        /\ PersistedIds = old_ids \o [j \in 1..Len(KeptEntries) |-> KeptEntries[j].id]
        /\ embFile = old_embeddings \o [j \in 1..Len(KeptEntries) |-> Embed(KeptEntries[j].text)]
        /\ PersistedRows = old_df \o ReadCsv(ToCsv(NewDataframe(KeptEntries)))

\* how many of the persisted artefacts a step changes
ArtefactsWritten ==
    (IF embFile' # embFile THEN 1 ELSE 0) + (IF idsFile' # idsFile THEN 1 ELSE 0)
    + (IF dfFile' # dfFile THEN 1 ELSE 0) + (IF annFile' # annFile THEN 1 ELSE 0)

\* a step in which the call under way fails
FailingStep == bresult # "failed" /\ bresult' = "failed"

\* a step in which the construction of a SentenceSearcher goes on
LoadingStep == <<r_ids, r_data, n_returns, sop>>' # <<r_ids, r_data, n_returns, sop>>

\* the artefacts the call under way has written in full
WrittenInFull ==
    CASE bpc = "save_ids"       -> {"emb"}
      [] bpc = "save_dataframe" -> {"emb", "ids"}
      [] bpc = "build_ann"      -> {"emb", "ids", "df"}
      [] OTHER                  -> {}

\* the content of an artefact
Artefact(name) ==
    CASE name = "emb" -> embFile
      [] name = "ids" -> idsFile
      [] name = "df"  -> dfFile
      [] OTHER        -> annFile

\* every step writes at most one artefact; a failing step takes back nothing of what
\* the call had written; a load takes the ids, and later the table, as they are at
\* that moment, whatever the builder is at
PersistsStepwise ==
    /\ ArtefactsWritten <= 1
    /\ FailingStep =>
          /\ files \subseteq files'
          /\ \A name \in WrittenInFull : Artefact(name)' = Artefact(name)
    /\ LoadingStep =>
          /\ bpc' = bpc
          /\ r_ids' # r_ids => r_ids' \in {annFile.ids, <<>>}
          /\ r_data' # r_data => r_data' = ReadCsv(dfFile)

\* between the writes of an extend the persisted lengths differ by the corpus length
HalfWritten ==
    /\ (bpc = "save_ids" /\ merged) => Len(embFile) = Len(PersistedIds) + Len(corpus)
    /\ (bpc = "save_dataframe" /\ merged) =>
        /\ Len(embFile) = Len(PersistedIds)
        /\ Len(PersistedIds) = Len(PersistedRows) + Len(corpus)
    /\ (bpc = "build_ann" /\ merged) =>
        Len(PersistedRows) = Len(annFile.ids) + Len(corpus)

\* C16: non-atomic persistence.  The matrix, the id list and the table are written
\* one after another, with no lock and no rollback: between two writes of an extend
\* their lengths differ, a failure there leaves them so, and a retriever constructed
\* at that moment takes the location as it is.
C16_NonAtomicPersistence == [][PersistsStepwise]_vars /\ []HalfWritten

\* a retriever constructed while an extend had written the table but not yet the
\* ANN index: its table is longer than its id list
C16_Witness ==
    /\ n_returns # 0
    /\ bpc = "build_ann"
    /\ merged
    /\ Len(corpus) > 0
    /\ Len(r_data) = Len(r_ids) + Len(corpus)
    /\ Len(embFile) # Len(annFile.vectors)

----------------------------------------------------------------------------
(* Further claims about the training-data miner                            *)

\* the train_test_split call for pass p has returned
SplitReturned(p) ==
    \/ mpc \in {"finish", "done"}
    \/ p = "correct" /\ mpc \in {"split_incorrect", "split_neutral"}
    \/ p = "incorrect" /\ mpc = "split_neutral"

\* a train_test_split call has raised
SplitRaised == mpc = "failed" /\ mresult = "TypeError"

\* what C13 says of the split of one found mapping: round(N * r) keys in train, the
\* other keys in test, every key with the example it had
SplitAsClaimed(data, ratio, split) ==
    /\ Len(split.train) = RoundHalfEven(Len(data) * ratio[1], ratio[2])
    /\ Len(split.test) = Len(data) - Len(split.train)
    /\ KeySet(split.train) \cap KeySet(split.test) = {}
    /\ KeySet(split.train) \cup KeySet(split.test) = KeySet(data)
    /\ \A k \in KeySet(split.train) : Get(split.train, k) = Get(data, k)
    /\ \A k \in KeySet(split.test) : Get(split.test, k) = Get(data, k)

\* C13: split size per label type.  train_test_split applied to a found mapping of
\* N keys with ratio r returns round(N * r) keys as train and the other keys as
\* test, examples unchanged, and the final train and test are the merges of the
\* three splits in the order positive, confirmed-negative, neutral.
C13_SplitSizes ==
    /\ ~SplitRaised
    /\ \A p \in Passes :
        SplitReturned(p) => SplitAsClaimed(passFound[p], margs.tts_ratio, splits[p])
    /\ mpc = "done" =>
        /\ train = Merge(Merge(splits["correct"].train, splits["incorrect"].train),
                         splits["neutral"].train)
        /\ test = Merge(Merge(splits["correct"].test, splits["incorrect"].test),
                        splits["neutral"].test)

\* C14: a failure to load or parse the relation file is fatal to the whole run.  Once
\* such a run has left its first lines it has ended with an error, no pass has
\* handled a pair or bound a result, and none of the three files is written.
C14_LoadFailureFatal ==
    (~margs.readable /\ mpc # "begin") =>
        /\ mpc = "failed"
        /\ mresult \notin {"none", "ok"}
        /\ written = {}
        /\ bound = {}
        /\ visited = <<>>
        /\ lastPair = NoPair
        /\ \A p \in Passes : passFound[p] = <<>> /\ passNotFound[p] = <<>>

\* a run whose relation file could not be read has ended
C14_Witness ==
    /\ ~margs.readable
    /\ mpc = "failed"
    /\ mresult = "UnboundLocalError"

\* the example the last write to key k in a sequence of <<key, example>> writes stored
LastWrite(log, k) ==
    LET last == CHOOSE j \in 1..Len(log) :
                    /\ log[j][1] = k
                    /\ \A h \in (j + 1)..Len(log) : log[h][1] # k
    IN  log[last][2]

\* d holds each written key once, with the example of the last write to it
HoldsLastWrites(d, log) ==
    /\ \A a, b \in 1..Len(d) : d[a][1] = d[b][1] => a = b
    /\ KeySet(d) = { log[j][1] : j \in 1..Len(log) }
    /\ \A k \in KeySet(d) : Get(d, k) = LastWrite(log, k)

\* C17: last write wins on composite keys.  At every point of a pass, found holds
\* each composite key written so far exactly once, with the example of the last write
\* to that key; and when a run has completed, the merged train set and the merged
\* test set hold each key once, with the example of the last of the positive,
\* confirmed-negative and neutral sets that has the key.
C17_LastWriteWins ==
    /\ HoldsLastWrites(found, writeLog)
    /\ mpc = "done" =>
        /\ HoldsLastWrites(train, splits["correct"].train \o splits["incorrect"].train
                                    \o splits["neutral"].train)
        /\ HoldsLastWrites(test, splits["correct"].test \o splits["incorrect"].test
                                   \o splits["neutral"].test)

\* a pass has written two different examples under one key and found holds the later
C17_Witness ==
    \E a, b \in 1..Len(writeLog) :
        /\ a < b
        /\ writeLog[a][1] = writeLog[b][1]
        /\ writeLog[a][2] # writeLog[b][2]
        /\ \A h \in (b + 1)..Len(writeLog) : writeLog[h][1] # writeLog[b][1]
        /\ Get(found, writeLog[b][1]) = writeLog[b][2]

\* a completed run whose merged train set holds the confirmed-negative example of a
\* key that the positive train set has too
C17_MergeWitness ==
    /\ mpc = "done"
    /\ \E k \in KeySet(splits["correct"].train) \cap KeySet(splits["incorrect"].train) :
        /\ Get(train, k) = Get(splits["incorrect"].train, k)
        /\ Get(train, k) # Get(splits["correct"].train, k)

\* every id that correct refers to is a key of queries or of collection
RelationIntegrity(x) ==
    \A i \in 1..Len(x.correct) :
        /\ HasKey(x.queries, x.correct[i][1])
        /\ \A d \in Range(x.correct[i][2]) : HasKey(x.collection, d)

\* how often the id d is listed under the query id q in correct
TimesListed(correct, q, d) ==
    IF HasKey(correct, q)
    THEN Cardinality({ j \in 1..Len(Get(correct, q)) : Get(correct, q)[j] = d })
    ELSE 0

\* the (query, document) pair of a gold row is listed once, under the ids of both
GoldPairListedOnce(x, pair) ==
    \E q \in KeySet(x.queries), d \in KeySet(x.collection) :
        /\ Get(x.queries, q) = pair[1]
        /\ Get(x.collection, d) = pair[2]
        /\ TimesListed(x.correct, q, d) = 1

\* C18: RelationSet integrity is preserved by the gold-standard merge.  If every id
\* that correct refers to exists in queries and collection before add_gold_standard,
\* then for any gold rows the call returns, every id that correct refers to still
\* exists, and the collection id of every gold (query, document) pair is listed
\* exactly once under the id of the query.
C18_GoldMergeKeepsIntegrity ==
    (margs # <<>> /\ margs.readable /\ RelationIntegrity(margs.intel) /\ mpc # "begin") =>
        /\ mresult # "KeyError"
        /\ RelationIntegrity(intel)
        /\ \A pair \in Range(GoldPairs(margs.gold)) : GoldPairListedOnce(intel, pair)

\* no example of d has the query, the document and the label of the not-found record
NoExampleOf(d, nf) ==
    \A j \in 1..Len(d) :
        ~(d[j][2].query = nf.query /\ d[j][2].doc = nf.doc /\ d[j][2].label = nf.label)

\* no example of d has the query and the document of the not-found record
NoExampleOfPair(d, nf) ==
    \A j \in 1..Len(d) : ~(d[j][2].query = nf.query /\ d[j][2].doc = nf.doc)

\* the pairs that not-found mapping nfs records have no example in fnd
KeptOut(nfs, fnd) ==
    /\ KeySet(nfs) \cap KeySet(fnd) = {}
    /\ \A j \in 1..Len(nfs) : NoExampleOf(fnd, nfs[j][2])

\* C19: not-found pairs stay out of the trainable dataset.  A pair that a pass has
\* recorded in its not-found mapping has no example in the found mapping of that
\* pass, while the pass runs and after it has returned; when the run has completed,
\* no such pair has an example of the pass's label in train or in test (and, with
\* the SentenceSearcher of model.py, no example of any label), and the merged
\* not-found mapping is what not_found_search_pairs.json holds, apart from train and
\* test.
C19_NotFoundStaysOut ==
    /\ KeptOut(not_found, found)
    /\ \A p \in Passes : KeptOut(passNotFound[p], passFound[p])
    /\ "not_found_search_pairs.json" \in written =>
            notfound = Merge(Merge(passNotFound["correct"], passNotFound["incorrect"]),
                             passNotFound["neutral"])
    /\ mpc = "done" => KeptOut(notfound, train) /\ KeptOut(notfound, test)
    /\ (mpc = "done" /\ ~margs.takesK) =>
            \A j \in 1..Len(notfound) :
                NoExampleOfPair(train, notfound[j][2]) /\ NoExampleOfPair(test, notfound[j][2])

\* a completed run with a not-found pair and a train set that is not empty
C19_Witness ==
    /\ mpc = "done"
    /\ notfound # <<>>
    /\ train # <<>>
    /\ "training_data.json" \in written

\* C20: the loaded index is read-only for its consumers.  At every point of a mining
\* run the retriever holds the id list and the metadata table it loaded: its data is
\* the table read from data.csv, rows and columns, and its ids are those of the index.
C20_LoadedIndexReadOnly ==
    /\ r_ids = annFile.ids
    /\ r_data = ReadCsv(dfFile)

\* the run mines the relation q1 -> c1 (D1) for the query "cat" with n_matching = 1 over
\* an index of the two passages "the cat sat" and "a dog ran"
TwoPassageRun ==
    /\ margs # <<>>
    /\ margs.readable
    /\ margs.intel = OneRelation
    /\ margs.n_matching = 1
    /\ Len(margs.corpus) = 2
    /\ margs.corpus[1].text = <<"the", " ", "cat", " ", "sat">>
    /\ margs.corpus[2].text = <<"a", " ", "dog", " ", "ran">>

\* the positive pass has returned with the example of the first passage, keyed by the
\* query id and the passage id, and nothing else
PositiveFoundFirstPassage ==
    passFound["correct"] =
        << << Uid(Key("q", "1"), margs.corpus[1].id),
              [query |-> <<"cat">>, doc |-> Doc("1"),
               paragraph |-> <<"the", " ", "cat", " ", "sat">>, label |-> 1] >> >>

\* p1 is a passage of D1 and p2 one of D2: their ids name D1 and D2 before ".pdf"
IdsNameDocuments ==
    /\ SplitFirst(margs.corpus[1].id, Pdf) = Doc("1")
    /\ SplitFirst(margs.corpus[2].id, Pdf) = Doc("2")

\* C21: with an index holding p1 ("the cat sat", document D1) and p2 ("a dog ran",
\* document D2), the document of a passage being the part of its id before ".pdf"
\* (line 323), and the relation q1 -> c1 -> D1 for the query "cat", the positive pass
\* with n_matching = 1 yields exactly one example, keyed by q1 and the id of p1, with
\* label 1, doc D1 and paragraph "the cat sat", and no example for p2.
C21_ScenarioDocumentIds ==
    (TwoPassageRun /\ IdsNameDocuments /\ "correct" \in bound) => PositiveFoundFirstPassage

\* the positive pass of that run has returned
C21_Witness ==
    /\ TwoPassageRun /\ IdsNameDocuments
    /\ "correct" \in bound
    /\ PositiveFoundFirstPassage

\* the two numbers of a "<a> train / <b> test" text of the metadata
ReportedTrain(text) == ParseInt(SplitOn(text, " ")[1])
ReportedTest(text) == ParseInt(SplitOn(text, " ")[4])

\* the entries of d whose label is the given one
WithLabel(d, label) == { j \in 1..Len(d) : d[j][2].label = label }

\* C24: summary statistics match the dataset.  In the metadata of a completed run the
\* positive, neutral and negative counts reported for train (for test) are the
\* numbers of entries of the merged train (test) with label 1, 0 and -1, and the
\* three counts sum to train_size (test_size).
C24_MetadataMatchesDataset ==
    mpc = "done" =>
        /\ ReportedTrain(metadata.n_positive_samples) = Cardinality(WithLabel(train, 1))
        /\ ReportedTrain(metadata.n_neutral_samples) = Cardinality(WithLabel(train, 0))
        /\ ReportedTrain(metadata.n_negative_samples) = Cardinality(WithLabel(train, -1))
        /\ ReportedTest(metadata.n_positive_samples) = Cardinality(WithLabel(test, 1))
        /\ ReportedTest(metadata.n_neutral_samples) = Cardinality(WithLabel(test, 0))
        /\ ReportedTest(metadata.n_negative_samples) = Cardinality(WithLabel(test, -1))
        /\ ReportedTrain(metadata.n_positive_samples) + ReportedTrain(metadata.n_neutral_samples)
            + ReportedTrain(metadata.n_negative_samples) = metadata.train_size
        /\ ReportedTest(metadata.n_positive_samples) + ReportedTest(metadata.n_neutral_samples)
            + ReportedTest(metadata.n_negative_samples) = metadata.test_size
        /\ metadata.train_size = Len(train)
        /\ metadata.test_size = Len(test)

\* a completed run whose train and test sets are not empty and hold entries of two
\* labels, with the metadata written
C24_Witness ==
    /\ mpc = "done"
    /\ "training_metadata.json" \in written
    /\ train # <<>> /\ test # <<>>
    /\ \E l1, l2 \in {1, 0, -1} :
        /\ l1 # l2
        /\ WithLabel(train, l1) \cup WithLabel(test, l1) # {}
        /\ WithLabel(train, l2) \cup WithLabel(test, l2) # {}

\* C25: fewer than two rerank candidates.  For the pair a positive or confirmed-
\* negative pass has just mined: when the expected document has exactly one passage
\* in the table, no Similarity Provider call was made and that passage is what
\* get_best_paragraphs returned, with the placeholder score; when it has none, no call
\* was made, nothing was returned or written, and the pair is not recorded as failed.
C25_FewerThanTwoCandidates ==
    MatchPairDone =>
        LET rows == DocRows(r_data, lastPair.doc)
        IN  /\ Len(rows) = 1 =>
                    /\ lastPair.sim = "none"
                    /\ ~lastPair.raised
                    /\ lastPair.matching =
                            << [score |-> "na", id |-> rows[1].paragraph_id,
                                text |-> TruncateTokens(rows[1].text, ShortTokens)] >>
            /\ Len(rows) = 0 =>
                    /\ lastPair.sim = "none"
                    /\ ~lastPair.raised
                    /\ lastPair.matching = <<>>
                    /\ lastPair.writes = <<>>
                    /\ ~HasKey(not_found, Uid(lastPair.i, lastPair.k))

\* mapping after holds every entry of mapping before in its place, and one entry more
\* for each of the values that before did not hold
GrownBy(before, after, values) ==
    /\ \A i \in 1..Len(before) : i <= Len(after) /\ after[i] = before[i]
    /\ Len(after) = Len(before) + Cardinality(values \ Range(DictValues(before)))
    /\ \A a, b \in 1..Len(after) : after[a][1] = after[b][1] => a = b

\* C27: fresh keys in the gold-standard merge.  When add_gold_standard has returned,
\* queries and collection hold every entry they held before, unchanged, and one new
\* entry under a new key for each gold query and gold document they did not hold.
C27_FreshKeys ==
    (margs # <<>> /\ margs.readable /\ mpc = "correct") =>
        /\ GrownBy(margs.intel.queries, intel.queries,
                   { margs.gold[i].query_clean : i \in 1..Len(margs.gold) })
        /\ GrownBy(margs.intel.collection, intel.collection, GoldDocs(margs.gold))

\* len(text.split()): the number of whitespace-delimited tokens of a text
WordCount(text) ==
    Cardinality({ i \in 1..Len(text) :
                    text[i] \notin WhiteSpace /\ (i = 1 \/ text[i - 1] \in WhiteSpace) })

\* C23: every example of train and test, from any of the three passes, has a
\* paragraph of at most 400 whitespace-delimited tokens, whatever the length and the
\* whitespace of the stored passage text.
C23_ParagraphTokenBound ==
    mpc = "done" =>
        \A d \in {train, test} : \A j \in 1..Len(d) :
            WordCount(d[j][2].paragraph) <= ParagraphTokens

\* a step that starts a call with overwrite true, or on a location without vector file
RebuildCall ==
    /\ bpc = "idle" /\ bpc' = "save_embeddings"
    /\ overwrite' \/ "emb" \notin files

\* the location holds the ids, vectors and rows of the corpus of the last call, in
\* corpus order, and nothing else
HoldsExactlyCorpus ==
    /\ PersistedIds = ModelIndexIds(corpus)
    /\ embFile = ModelIndexVectors(corpus)
    /\ dfFile = ToCsv(NewDataframe(corpus))
    /\ annFile.ids = ModelIndexIds(corpus)
    /\ annFile.vectors = Normalize(ModelIndexVectors(corpus))

\* C26: full rebuild.  A call with overwrite true, or on a location that holds no
\* vector file, does not take the branch that extends, and a completed call that did
\* not take it leaves the location holding exactly the ids, vectors and metadata rows
\* of its corpus, in corpus order, whatever was persisted there before.
C26_FullRebuild ==
    /\ [][RebuildCall => ~merged']_vars
    /\ [](BuildDone /\ ~merged => HoldsExactlyCorpus)

\* a rebuild with overwrite true has rewritten the matrix, the id list and the table
\* with its corpus, on a location whose saved index still is the longer one from before
C26_Witness ==
    /\ bpc = "build_ann"
    /\ overwrite /\ ~merged
    /\ PersistedIds = ModelIndexIds(corpus)
    /\ embFile = ModelIndexVectors(corpus)
    /\ dfFile = ToCsv(NewDataframe(corpus))
    /\ Len(annFile.ids) > Len(corpus)

\* a first call on a location that held an id list and a table without vector file
\* has completed
C26_StaleWitness ==
    /\ BuildDone /\ ~merged /\ ~overwrite
    /\ HoldsExactlyCorpus
    /\ Len(corpus) = 1

----------------------------------------------------------------------------
(* Claims about train_test_split                                            *)

\* C22: split determinism.  Any two calls of train_test_split made in one process
\* over the same found mapping and the same ratio that return put the same keys in
\* train and the same keys in test.
C22_SplitDeterministic ==
    \A a, b \in 1..Len(splitCalls) :
        (/\ splitCalls[a].data = splitCalls[b].data /\ splitCalls[a].ratio = splitCalls[b].ratio
            /\ splitCalls[a].raised = "" /\ splitCalls[b].raised = "")
            => /\ KeySet(splitCalls[a].train) = KeySet(splitCalls[b].train)
               /\ KeySet(splitCalls[a].test) = KeySet(splitCalls[b].test)

\* what the seeded generator draws is one of the samples random.sample can draw
SeededSplitIsASplit ==
    \A a \in 1..Len(splitCalls) :
        splitCalls[a].raised = "" =>
        [train |-> splitCalls[a].train, test |-> splitCalls[a].test]
            \in TrainTestSplit(splitCalls[a].data, splitCalls[a].ratio)

----------------------------------------------------------------------------
(* Claims about the recommender                                             *)

\* the last get_recs call was given a filename and returned
RecsReturned == rcall.called /\ rcall.filename # <<>> /\ rout.raised = ""

\* each result of the last call is a member of the corpus list
RecsInCorpus ==
    RecsReturned => \A i \in 1..Len(rout.results) : rout.results[i] \in Range(corpus_list)

\* C28: get_recs(filename, limit=L) returns at most L results for every user graph
\* and every L >= 0, each result is a member of the corpus list, and the queried
\* filename is never among the results.
C28_BoundedRecs ==
    RecsReturned =>
        /\ Len(rout.results) <= rcall.limit
        /\ \A i \in 1..Len(rout.results) :
              /\ rout.results[i] \in Range(corpus_list)
              /\ rout.results[i] # rout.filename
              /\ rout.results[i] # rcall.filename

----------------------------------------------------------------------------
(* Claims about the /reloadModels and /trainModel handlers                  *)

\* the statuses reported for request r, in order
ReportsOf(r) == SelectSeq(reports, LAMBDA s : s.request = r)

\* the last status reported for request r says progress = total
ReportedComplete(r) ==
    LET mine == ReportsOf(r)
    IN  /\ mine # <<>>
        /\ ~mine[Len(mine)].failed
        /\ mine[Len(mine)].progress = mine[Len(mine)].total

\* no reported progress exceeds the reported total
ProgressWithinTotal ==
    \A i \in 1..Len(reports) : reports[i].failed \/ reports[i].progress <= reports[i].total

\* a model_dict whose keys are all among "sentence" and "qexp"
OnlyLoadedKeys(r) == DOMAIN reloads[r].model_dict \subseteq {"sentence", "qexp"}

\* a reload of a model_dict with no other key than "sentence" and "qexp" is reported
\* complete when its thread finishes
KnownKeysReloadCompletes ==
    \A r \in 1..MaxReloads :
        (reloads[r].pc = "finished" /\ OnlyLoadedKeys(r)) => ReportedComplete(r)

\* C29: reload completion.  For every model_dict posted to /reloadModels, when the
\* reload thread finishes without an exception the last status reported for the
\* reload has progress equal to total (the number of entries of model_dict), so a
\* posted reload eventually fails or is reported complete; and no reported progress
\* exceeds its total.
C29_ReloadCompletion ==
    /\ []ProgressWithinTotal
    /\ \A r \in 1..MaxReloads :
          /\ [](reloads[r].pc = "finished" => ReportedComplete(r))
          /\ (reloads[r].pc = "started") ~> (reloads[r].pc = "failed" \/ ReportedComplete(r))

\* the training method that matches a build type
MatchingMethod(build_type) ==
    CASE build_type = "sentence"      -> "train_sentence"
      [] build_type = "qexp"          -> "train_qexp"
      [] build_type = "sent_finetune" -> "finetune_sentence"

\* the request names one of the three build types
NamesBuildType(model_dict) ==
    /\ "build_type" \in DOMAIN model_dict
    /\ model_dict["build_type"] \in {"sentence", "qexp", "sent_finetune"}

\* C30: a /trainModel request without build_type, or with a build_type outside
\* sentence, qexp and sent_finetune, starts no training thread and is answered with
\* status 500; a request with one of the three build types starts exactly one
\* thread, running the matching training method, and is answered with status 200.
C30_TrainDispatch ==
    \A i \in 1..Len(trainCalls) :
        LET call == trainCalls[i]
        IN  IF NamesBuildType(call.model_dict)
            THEN /\ call.threads = <<MatchingMethod(call.model_dict["build_type"])>>
                 /\ call.status = 200
            ELSE /\ call.threads = <<>>
                 /\ call.status = 500

\* one request with an unknown build type was refused and one with build type qexp
\* has had its thread run the qexp pipeline
C30_Witness ==
    /\ \E i \in 1..Len(trainCalls) :
          /\ "build_type" \in DOMAIN trainCalls[i].model_dict
          /\ trainCalls[i].model_dict["build_type"] = "evaluate"
          /\ trainCalls[i].status = 500
    /\ \E i \in 1..Len(trainCalls) :
          /\ trainCalls[i].threads = <<"train_qexp">>
          /\ trainCalls[i].outcome = "qexp"
          /\ trainCalls[i].status = 200

\* a request without build_type was refused
C30_MissingWitness ==
    \E i \in 1..Len(trainCalls) :
        /\ "build_type" \notin DOMAIN trainCalls[i].model_dict
        /\ trainCalls[i].threads = <<>>
        /\ trainCalls[i].status = 500

=============================================================================
